---- MODULE Spec2Model ----
(***************************************************************************)
(* Model of the ilpas configuration store: the Store contract              *)
(* (reagent/ilpas/core/store.py) over the in-memory backend                *)
(* (reagent/ilpas/dx/in_memory_store.py).                                  *)
(*                                                                         *)
(* Python dicts are modelled as TLA+ functions whose DOMAIN is the set of  *)
(* keys present; Python sets as TLA+ sets.  Python's None is the string    *)
(* None.  A dict of labels handed to a lookup keeps its insertion order    *)
(* (a sequence of <<key, value>> pairs) because the lookup's side effect   *)
(* depends on which bucket is visited first.                               *)
(***************************************************************************)
EXTENDS Integers, Sequences, FiniteSets, TLC

VARIABLES store, label_index, guid_index, instance_discovery_store, encryptor,
          held, tokens, tasks, next_uuid, local_store, last

vars == <<store, label_index, guid_index, instance_discovery_store, encryptor,
          held, tokens, tasks, next_uuid, local_store, last>>

(***************************************************************************)
(* Bounds and input universes                                              *)
(***************************************************************************)
\* uuid4() values drawn in a run of Spec
MaxUuid == 1

\* uuid4() values drawn in a run of SpecLabelsOnly
MaxUuidLabelsOnly == 2

None == "None"

default_namespace == "default"

UuidNames == <<"u1", "u2", "u3", "u4", "u5">>

UserKeys == {"p1"}

\* the empty string is a primary key as good as any other str
EmptyKeys == {""}

Guids == {"slack", "github"}

LabelKeys == {"team"}

LabelValues == {"eng", None}

ValueDicts == {[user |-> [x |-> 1], admin |-> [secret |-> "s1"]]}

\* the encryption keys the store of Spec is constructed with; an
\* Optional[List[str]] is the empty sequence (None) or holds the one list
PrimaryEncryptionKey == "K1"

SecondaryEncryptionKeys == <<>>

(***************************************************************************)
(* Dict helpers                                                            *)
(***************************************************************************)
EmptyDict == [x \in {} |-> None]

DictSet(d, k, v) == [x \in DOMAIN d \cup {k} |-> IF x = k THEN v ELSE d[x]]

DictDel(d, k) == [x \in DOMAIN d \ {k} |-> d[x]]

\* every dict with keys drawn from K and values drawn from V
Dicts(K, V) == UNION {[D -> V] : D \in SUBSET K}

\* the insertion orders of a dict: every sequence listing each item once
Items(d) ==
    {s \in [1..Cardinality(DOMAIN d) -> {<<k, d[k]>> : k \in DOMAIN d}] :
        \A i, j \in DOMAIN s : i # j => s[i][1] # s[j][1]}

ItemsOf(d) == CHOOSE s \in Items(d) : TRUE

(***************************************************************************)
(* In-memory backend.  A namespace's slice of the three dicts is passed    *)
(* around as N = [store, label_index, guid_index], i.e. self.store[ns],    *)
(* self.label_index[ns] and self.guid_index[ns].                           *)
(***************************************************************************)
NsState(S, LI, GI) == [store |-> S, label_index |-> LI, guid_index |-> GI]

\* _create_namespace: the three empty dicts of a new namespace
EmptyNamespace == NsState(EmptyDict, EmptyDict, EmptyDict)

\* which index bucket the local name matching_primary_keys is bound to
NoRef == [kind |-> "none", key |-> None, value |-> None]

GuidRef(guid) == [kind |-> "guid", key |-> guid, value |-> None]

LabelRef(label_key, label_value) == [kind |-> "label", key |-> label_key, value |-> label_value]

\* the for loop of _find_primary_keys_by_labels over labels.items(), from
\* item i on; m = [isNone, keys, ref] is matching_primary_keys
RECURSIVE FindLoop(_, _, _, _)
FindLoop(LI, labels, i, m) ==
    IF i > Len(labels) THEN m
    ELSE LET label_key == labels[i][1]
             label_value == labels[i][2]
         IN  IF label_key \notin DOMAIN LI
             THEN FindLoop(LI, labels, i + 1, m)
             ELSE IF label_value \notin DOMAIN LI[label_key]
             THEN FindLoop(LI, labels, i + 1, m)
             ELSE LET current_matching_keys == LI[label_key][label_value]
                  IN  IF m.isNone
                      THEN FindLoop(LI, labels, i + 1,
                               [isNone |-> FALSE, keys |-> current_matching_keys,
                                ref |-> LabelRef(label_key, label_value)])
                      ELSE FindLoop(LI, labels, i + 1,
                               [m EXCEPT !.keys = m.keys \cap current_matching_keys])

\* intersection_update acts on the set object matching_primary_keys names,
\* which is the index bucket itself: the bucket ends up holding the result
WriteBack(N, m) ==
    IF m.ref.kind = "guid"
    THEN [N EXCEPT !.guid_index[m.ref.key] = m.keys]
    ELSE IF m.ref.kind = "label"
    THEN [N EXCEPT !.label_index[m.ref.key][m.ref.value] = m.keys]
    ELSE N

\* _find_primary_keys_by_labels: [ret |-> the returned set, N |-> the
\* namespace afterwards]; guid is a Guid or None, labels a sequence of items
FindPrimaryKeysByLabels(N, guid, labels) ==
    IF Len(labels) = 0 /\ guid = None
    THEN [ret |-> DOMAIN N.store, N |-> N]
    ELSE IF guid # None /\ guid \notin DOMAIN N.guid_index
    THEN [ret |-> {}, N |-> N]
    ELSE LET m0 == IF guid # None
                   THEN [isNone |-> FALSE, keys |-> N.guid_index[guid], ref |-> GuidRef(guid)]
                   ELSE [isNone |-> TRUE, keys |-> {}, ref |-> NoRef]
             m == FindLoop(N.label_index, labels, 1, m0)
         IN  IF m.isNone
             THEN [ret |-> {}, N |-> N]
             ELSE [ret |-> m.keys, N |-> WriteBack(N, m)]

\* _check_primary_keys
CheckPrimaryKeys(N, primary_keys) == \A pkey \in primary_keys : pkey \in DOMAIN N.store

\* _add_new_label (its one call site passes a label_key the index lacks)
AddNewLabel(N, label_key, primary_key) ==
    LET LI1 == IF label_key \notin DOMAIN N.label_index
               THEN DictSet(N.label_index, label_key, DictSet(EmptyDict, None, {}))
               ELSE N.label_index
        others == DOMAIN N.store \ {primary_key}
    IN  IF others = {}
        THEN [N EXCEPT !.label_index = LI1]
        ELSE [N EXCEPT
                !.label_index = [LI1 EXCEPT ![label_key][None] = @ \cup others],
                !.store = [pkey \in DOMAIN N.store |->
                              IF pkey # primary_key
                              THEN [N.store[pkey] EXCEPT !.labels = DictSet(@, label_key, None)]
                              ELSE N.store[pkey]]]

\* _add_new_guid
AddNewGuid(N, guid, primary_key) ==
    IF guid \notin DOMAIN N.guid_index
    THEN [N EXCEPT !.guid_index = DictSet(@, guid, {})]
    ELSE N

\* body of the for loop of _index_labels for one item
IndexOneLabel(N, primary_key, label_key, label_value) ==
    LET N1 == IF label_key \notin DOMAIN N.label_index
              THEN AddNewLabel(N, label_key, primary_key)
              ELSE N
        N2 == IF label_value \notin DOMAIN N1.label_index[label_key]
              THEN [N1 EXCEPT !.label_index[label_key] = DictSet(@, label_value, {})]
              ELSE N1
    IN  [N2 EXCEPT !.label_index[label_key][label_value] = @ \cup {primary_key}]

\* the for loop of _index_labels over the items not yet visited (keys)
RECURSIVE IndexLoop(_, _, _, _)
IndexLoop(N, primary_key, labels, keys) ==
    IF keys = {} THEN N
    ELSE LET label_key == CHOOSE k \in keys : TRUE
         IN  IndexLoop(IndexOneLabel(N, primary_key, label_key, labels[label_key]),
                       primary_key, labels, keys \ {label_key})

\* _index_labels
IndexLabels(N, primary_key, guid, labels) ==
    LET N1 == IF guid \notin DOMAIN N.guid_index THEN AddNewGuid(N, guid, primary_key) ELSE N
        N2 == [N1 EXCEPT !.guid_index[guid] = @ \cup {primary_key}]
    IN  IndexLoop(N2, primary_key, labels, DOMAIN labels)

\* body of the for loop of _deindex_labels for one item
DeindexOneLabel(LI, primary_key, label_key, label_value) ==
    IF label_key \in DOMAIN LI /\ label_value \in DOMAIN LI[label_key]
    THEN LET bucket == LI[label_key][label_value] \ {primary_key}
             values == IF bucket = {}
                       THEN DictDel(LI[label_key], label_value)
                       ELSE DictSet(LI[label_key], label_value, bucket)
         IN  IF DOMAIN values = {}
             THEN DictDel(LI, label_key)
             ELSE DictSet(LI, label_key, values)
    ELSE LI

\* the for loop of _deindex_labels over the items not yet visited (keys)
RECURSIVE DeindexLoop(_, _, _, _)
DeindexLoop(LI, primary_key, labels, keys) ==
    IF keys = {} THEN LI
    ELSE LET label_key == CHOOSE k \in keys : TRUE
         IN  DeindexLoop(DeindexOneLabel(LI, primary_key, label_key, labels[label_key]),
                         primary_key, labels, keys \ {label_key})

\* _deindex_labels that clears the guid bucket only
DeindexLabelsGuidOnly(N, primary_key, guid, labels) ==
    [N EXCEPT !.guid_index =
        IF guid \in DOMAIN N.guid_index
        THEN IF N.guid_index[guid] \ {primary_key} = {}
             THEN DictDel(N.guid_index, guid)
             ELSE DictSet(N.guid_index, guid, N.guid_index[guid] \ {primary_key})
        ELSE N.guid_index]

\* _deindex_labels
DeindexLabels(N, primary_key, guid, labels) ==
    LET GI1 == IF guid \in DOMAIN N.guid_index
               THEN LET bucket == N.guid_index[guid] \ {primary_key}
                    IN  IF bucket = {}
                        THEN DictDel(N.guid_index, guid)
                        ELSE DictSet(N.guid_index, guid, bucket)
               ELSE N.guid_index
    IN  [N EXCEPT !.guid_index = GI1,
                  !.label_index = DeindexLoop(@, primary_key, labels, DOMAIN labels)]

\* _delete that forgets to deindex the record it pops
DeleteKeepsIndex(N, primary_key) == [N EXCEPT !.store = DictDel(@, primary_key)]

\* _delete (primary_key is known to exist)
Delete(N, primary_key) ==
    LET values_and_labels == N.store[primary_key]
        N1 == [N EXCEPT !.store = DictDel(@, primary_key)]
    IN  DeindexLabels(N1, primary_key, values_and_labels.guid, values_and_labels.labels)

\* _update_existing_pkey that stores and indexes the new labels on top of
\* the old index entries
UpdateExistingPkeyInPlace(N, primary_key, store_model) ==
    IF N.store[primary_key].guid # store_model.guid
    THEN [raised |-> "BadDataError", ret |-> None, N |-> N]
    ELSE [raised |-> None, ret |-> primary_key,
          N |-> IndexLabels([N EXCEPT !.store[primary_key] = store_model], primary_key,
                            store_model.guid, store_model.labels)]

\* _update_existing_pkey: [raised, ret, N]
UpdateExistingPkey(N, primary_key, store_model) ==
    LET current_labels == N.store[primary_key].labels
        current_guid == N.store[primary_key].guid
    IN  IF current_guid # store_model.guid
        THEN [raised |-> "BadDataError", ret |-> None, N |-> N]
        ELSE LET N1 == DeindexLabels(N, primary_key, store_model.guid, current_labels)
                 N2 == [N1 EXCEPT !.store[primary_key] = store_model]
             IN  [raised |-> None, ret |-> primary_key,
                  N |-> IndexLabels(N2, primary_key, store_model.guid, store_model.labels)]

\* _insert_new_pkey with pkey the value of str(uuid4())
InsertNewPkey(N, pkey, store_model) ==
    IF CheckPrimaryKeys(N, {pkey})
    THEN [raised |-> "RuntimeError", ret |-> None, N |-> N]
    ELSE LET N1 == [N EXCEPT !.store = DictSet(@, pkey, store_model)]
         IN  [raised |-> None, ret |-> pkey,
              N |-> IndexLabels(N1, pkey, store_model.guid, store_model.labels)]

\* _insert_given_pkey that stores the record without indexing it
InsertGivenPkeyUnindexed(N, primary_key, store_model) ==
    IF CheckPrimaryKeys(N, {primary_key})
    THEN [raised |-> "IlpasValueError", ret |-> None, N |-> N]
    ELSE [raised |-> None, ret |-> primary_key,
          N |-> [N EXCEPT !.store = DictSet(@, primary_key, store_model)]]

\* _insert_given_pkey
InsertGivenPkey(N, primary_key, store_model) ==
    IF CheckPrimaryKeys(N, {primary_key})
    THEN [raised |-> "IlpasValueError", ret |-> None, N |-> N]
    ELSE LET N1 == [N EXCEPT !.store = DictSet(@, primary_key, store_model)]
         IN  [raised |-> None, ret |-> primary_key,
              N |-> IndexLabels(N1, primary_key, store_model.guid, store_model.labels)]

(***************************************************************************)
(* Store contract.  G = [store, label_index, guid_index] is the backend's  *)
(* three dicts, each keyed by namespace.  Every operation yields           *)
(* [raised, ret, G]: the exception raised (None when it returns), the      *)
(* returned value and the dicts afterwards.                                *)
(***************************************************************************)
Backend(S, LI, GI) == [store |-> S, label_index |-> LI, guid_index |-> GI]

\* self.store[ns], self.label_index[ns], self.guid_index[ns]
Slice(G, ns) == NsState(G.store[ns], G.label_index[ns], G.guid_index[ns])

\* the dicts with namespace ns replaced by N
WithSlice(G, ns, N) ==
    Backend(DictSet(G.store, ns, N.store),
            DictSet(G.label_index, ns, N.label_index),
            DictSet(G.guid_index, ns, N.guid_index))

Outcome(raised, ret, G) == [raised |-> raised, ret |-> ret, G |-> G]

\* Store.__init__: the key list handed to MultiFernet, primary key first;
\* secondary_encryption_keys is <<>> for None and <<list>> for a list
EncryptionKeys(primary_encryption_key, secondary_encryption_keys) ==
    LET additional_keys == IF secondary_encryption_keys = <<>>
                           THEN <<>>
                           ELSE secondary_encryption_keys[1]
    IN  <<primary_encryption_key>> \o additional_keys

\* the dict keys that occur in payloads, in the order sort_keys=True lists them
SortedKeys == <<"admin", "callback", "hash", "secret", "state", "token", "user", "x">>

\* json.dumps(d, sort_keys=True): the items of d in sorted key order
JsonDumps(d) ==
    LET ks == SelectSeq(SortedKeys, LAMBDA k : k \in DOMAIN d)
    IN  [i \in 1..Len(ks) |-> <<ks[i], d[ks[i]]>>]

\* json.loads: the dict of the items listed
JsonLoads(str_rep) ==
    [k \in {str_rep[i][1] : i \in DOMAIN str_rep} |->
        str_rep[CHOOSE i \in DOMAIN str_rep : str_rep[i][1] = k][2]]

\* sha256(admin_content.encode()).hexdigest()
Sha256(admin_content) == <<"sha256", admin_content>>

\* MultiFernet.encrypt: a token under the first key of the list
FernetEncrypt(keys, data) == [key |-> keys[1], plaintext |-> data]

\* MultiFernet.decrypt that tries the first key of the list only
FernetDecryptPrimaryOnly(keys, token) ==
    IF keys[1] = token.key
    THEN [raised |-> None, ret |-> token.plaintext]
    ELSE [raised |-> "InvalidToken", ret |-> None]

\* MultiFernet.decrypt: each key of the list is tried in order; a token
\* opens under the key that made it and under no other
FernetDecrypt(keys, token) ==
    IF \E i \in DOMAIN keys : keys[i] = token.key
    THEN [raised |-> None, ret |-> token.plaintext]
    ELSE [raised |-> "InvalidToken", ret |-> None]

\* _encrypt that serialises the bundle as given, admin included
EncryptKeepsAdmin(value) == FernetEncrypt(encryptor, JsonDumps(value))

\* _encrypt: the admin part is replaced by its hash, the result is dumped
\* and encrypted
Encrypt(value) ==
    LET admin_content == JsonDumps(value["admin"])
        admin_hash == Sha256(admin_content)
        result_dict == [k \in {"user", "admin"} \cup ({"callback", "state"} \cap DOMAIN value) |->
                           IF k = "admin" THEN [hash |-> admin_hash] ELSE value[k]]
    IN  FernetEncrypt(encryptor, JsonDumps(result_dict))

\* _decrypt
Decrypt(encrypted_value) ==
    LET decrypted == FernetDecrypt(encryptor, encrypted_value)
    IN  IF decrypted.raised # None
        THEN decrypted
        ELSE [raised |-> None, ret |-> JsonLoads(decrypted.ret)]

StoreModel(encrypted_value, labels, guid) ==
    [encrypted_value |-> encrypted_value, labels |-> labels, guid |-> guid]

\* _get_namespace_name that gives an absent namespace the schema name
GetNamespaceNameSchema(namespace) == IF namespace # None THEN namespace ELSE "ns_default"

\* _get_namespace_name
GetNamespaceName(namespace) == IF namespace # None THEN namespace ELSE default_namespace

\* _check_namespace
CheckNamespace(G, namespace) == namespace \in DOMAIN G.store

\* _get_namespace
GetNamespace(G, namespace) ==
    LET ns == GetNamespaceName(namespace)
    IN  IF CheckNamespace(G, ns)
        THEN Outcome(None, ns, G)
        ELSE Outcome("NotFoundException", None, G)

\* _create_namespace
CreateNamespace(G, namespace) == WithSlice(G, namespace, EmptyNamespace)

\* _ensure_namespace_exists
EnsureNamespaceExists(G, namespace) ==
    LET r == GetNamespace(G, namespace)
    IN  IF r.raised = "NotFoundException"
        THEN LET ns == GetNamespaceName(namespace)
             IN  Outcome(None, ns, CreateNamespace(G, ns))
        ELSE r

\* _ensure_single_match
EnsureSingleMatch(primary_keys) ==
    IF Cardinality(primary_keys) > 1 THEN [raised |-> "ConflictException", ret |-> None]
    ELSE IF Cardinality(primary_keys) = 0 THEN [raised |-> "NotFoundException", ret |-> None]
    ELSE [raised |-> None, ret |-> CHOOSE pk \in primary_keys : TRUE]

\* _ensure_single_or_no_match
EnsureSingleOrNoMatch(primary_keys) ==
    IF Cardinality(primary_keys) > 1 THEN [raised |-> "ConflictException", ret |-> None]
    ELSE IF Cardinality(primary_keys) = 0 THEN [raised |-> None, ret |-> None]
    ELSE [raised |-> None, ret |-> CHOOSE pk \in primary_keys : TRUE]

\* put_by_primary_key
PutByPrimaryKeyOp(G, value, guid, labels, primary_key, namespace, throw_on_not_found) ==
    LET e == EnsureNamespaceExists(G, namespace)
        ns == e.ret
        N == Slice(e.G, ns)
        model == StoreModel(Encrypt(value), labels, guid)
    IN  IF CheckPrimaryKeys(N, {primary_key})
        THEN LET u == UpdateExistingPkey(N, primary_key, model)
             IN  Outcome(u.raised, u.ret, WithSlice(e.G, ns, u.N))
        ELSE IF throw_on_not_found
        THEN Outcome("NotFoundException", None, e.G)
        ELSE LET u == InsertGivenPkey(N, primary_key, model)
             IN  Outcome(u.raised, u.ret, WithSlice(e.G, ns, u.N))

\* bool(x) of an Optional[str]
Truthy(x) == x # None /\ x # ""

\* put_by_labels, with pkey the value str(uuid4()) would yield
PutByLabelsOp(G, value, guid, labels, namespace, pkey) ==
    LET e == EnsureNamespaceExists(G, namespace)
        ns == e.ret
        model == StoreModel(Encrypt(value), labels, guid)
        f == FindPrimaryKeysByLabels(Slice(e.G, ns), guid, ItemsOf(labels))
        existing_key == EnsureSingleOrNoMatch(f.ret)
    IN  IF existing_key.raised # None
        THEN Outcome(existing_key.raised, None, WithSlice(e.G, ns, f.N))
        ELSE IF Truthy(existing_key.ret)
        THEN LET u == UpdateExistingPkey(f.N, existing_key.ret, model)
             IN  Outcome(u.raised, u.ret, WithSlice(e.G, ns, u.N))
        ELSE LET u == InsertNewPkey(f.N, pkey, model)
             IN  Outcome(u.raised, u.ret, WithSlice(e.G, ns, u.N))

\* _get_encrypted_values_of_primary_keys: a deep copy of the models, or the
\* KeyError of self.store[namespace][pkey]
GetEncryptedValuesOfPrimaryKeys(N, primary_keys) ==
    IF \E pkey \in primary_keys : pkey \notin DOMAIN N.store
    THEN [raised |-> "KeyError", ret |-> None]
    ELSE [raised |-> None, ret |-> [pkey \in primary_keys |-> N.store[pkey]]]

\* the SearchResult a read builds from a StoreModel
SearchResult(primary_key, model) ==
    [primary_key |-> primary_key, value |-> Decrypt(model.encrypted_value).ret,
     labels |-> model.labels, guid |-> model.guid]

\* lines 393-408 and 435-450: fetch the model of primary_key and decrypt it
ReadOne(N, primary_key, G) ==
    LET models == GetEncryptedValuesOfPrimaryKeys(N, {primary_key})
    IN  IF models.raised # None
        THEN Outcome(models.raised, None, G)
        ELSE IF Decrypt(models.ret[primary_key].encrypted_value).raised # None
        THEN Outcome(Decrypt(models.ret[primary_key].encrypted_value).raised, None, G)
        ELSE Outcome(None, SearchResult(primary_key, models.ret[primary_key]), G)

\* get_by_primary_key
GetByPrimaryKeyOp(G, primary_key, namespace) ==
    LET g == GetNamespace(G, namespace)
    IN  IF g.raised # None THEN g
        ELSE ReadOne(Slice(G, g.ret), primary_key, G)

\* get_by_labels
GetByLabelsOp(G, guid, labels, namespace) ==
    LET g == GetNamespace(G, namespace)
    IN  IF g.raised # None THEN g
        ELSE LET f == FindPrimaryKeysByLabels(Slice(G, g.ret), guid, ItemsOf(labels))
                 G1 == WithSlice(G, g.ret, f.N)
                 primary_key == EnsureSingleMatch(f.ret)
             IN  IF primary_key.raised # None
                 THEN Outcome(primary_key.raised, None, G1)
                 ELSE ReadOne(f.N, primary_key.ret, G1)

\* search, with partial_labels in its insertion order; ret is the set of
\* the results listed
SearchOp(G, guid, partial_labels, namespace) ==
    LET g == GetNamespace(G, namespace)
    IN  IF g.raised # None THEN g
        ELSE LET f == FindPrimaryKeysByLabels(Slice(G, g.ret), guid, partial_labels)
                 G1 == WithSlice(G, g.ret, f.N)
             IN  IF ~CheckPrimaryKeys(f.N, f.ret)
                 THEN Outcome("ConflictException", None, G1)
                 ELSE LET models == GetEncryptedValuesOfPrimaryKeys(f.N, f.ret).ret
                      IN  IF \E pk \in f.ret : Decrypt(models[pk].encrypted_value).raised # None
                          THEN Outcome("InvalidToken", None, G1)
                          ELSE Outcome(None, {SearchResult(pk, models[pk]) : pk \in f.ret}, G1)

\* delete_by_primary_key
DeleteByPrimaryKeyOp(G, primary_key, namespace) ==
    LET g == GetNamespace(G, namespace)
    IN  IF g.raised # None THEN g
        ELSE IF ~CheckPrimaryKeys(Slice(G, g.ret), {primary_key})
        THEN Outcome(None, None, G)
        ELSE Outcome(None, None, WithSlice(G, g.ret, Delete(Slice(G, g.ret), primary_key)))

(***************************************************************************)
(* Labels dicts are kept by reference.  The operations above take every    *)
(* record's labels by value; _add_new_label's assignment (line 183) writes *)
(* into the dict object, so it shows in every record, of any namespace,    *)
(* that holds the same object, and in the caller's own dict.  H is the     *)
(* caller's dict: [value, holders].                                        *)
(***************************************************************************)
\* the dicts and the caller's dict after a write to namespace ns that gave
\* G1: w is the record the write bound or removed (its "labels" no longer is
\* the object it was), passed tells that w is now bound to the caller's dict
Shared(G1, H, ns, w, passed) ==
    LET keep == H.holders \ {<<ns, w>>}
        touched == {h \in keep :
                       /\ h[1] = ns
                       /\ ns \in DOMAIN G1.store
                       /\ h[2] \in DOMAIN G1.store[ns]
                       /\ G1.store[ns][h[2]].labels # H.value}
        value == IF touched = {}
                 THEN H.value
                 ELSE G1.store[ns][(CHOOSE h \in touched : TRUE)[2]].labels
        holders == keep \cup (IF passed THEN {<<ns, w>>} ELSE {})
    IN  [G |-> [G1 EXCEPT !.store =
                   [n \in DOMAIN G1.store |-> [pk \in DOMAIN G1.store[n] |->
                       IF <<n, pk>> \in holders
                       THEN [G1.store[n][pk] EXCEPT !.labels = value]
                       ELSE G1.store[n][pk]]]],
         held |-> [value |-> value, holders |-> holders]]

\* put_by_primary_key with labels a fresh dict, or the caller's dict
PutByPrimaryKeySharing(G, H, value, guid, labels, pass_held, primary_key, namespace, throw_on_not_found) ==
    LET r == PutByPrimaryKeyOp(G, value, guid, IF pass_held THEN H.value ELSE labels,
                               primary_key, namespace, throw_on_not_found)
        sh == Shared(r.G, H, GetNamespaceName(namespace), r.ret,
                     pass_held /\ r.raised = None)
    IN  [raised |-> r.raised, ret |-> r.ret, G |-> sh.G, held |-> sh.held]

\* put_by_labels with labels a fresh dict
PutByLabelsSharing(G, H, value, guid, labels, namespace, pkey) ==
    LET r == PutByLabelsOp(G, value, guid, labels, namespace, pkey)
        sh == Shared(r.G, H, GetNamespaceName(namespace), r.ret, FALSE)
    IN  [raised |-> r.raised, ret |-> r.ret, G |-> sh.G, held |-> sh.held]

\* delete_by_primary_key
DeleteByPrimaryKeySharing(G, H, primary_key, namespace) ==
    LET r == DeleteByPrimaryKeyOp(G, primary_key, namespace)
        sh == Shared(r.G, H, GetNamespaceName(namespace),
                     IF r.raised = None THEN primary_key ELSE None, FALSE)
    IN  [raised |-> r.raised, ret |-> r.ret, G |-> sh.G, held |-> sh.held]

(***************************************************************************)
(* Schema names (core/utils.py).  A string built by an f-string is the     *)
(* sequence of its parts.                                                  *)
(***************************************************************************)
NAMESPACE_SCHEMA_PREFIX == "ns_"

\* add_quotes
AddQuotes(value) == IF value # <<>> THEN <<"\"">> \o value \o <<"\"">> ELSE value

\* namespace_to_schema: [raised, ret]
NamespaceToSchema(namespace) ==
    IF namespace = "default"
    THEN [raised |-> "ValueError", ret |-> <<>>]
    ELSE IF namespace = None
    THEN [raised |-> None, ret |-> AddQuotes(<<NAMESPACE_SCHEMA_PREFIX, "default">>)]
    ELSE [raised |-> None, ret |-> AddQuotes(<<NAMESPACE_SCHEMA_PREFIX, namespace>>)]

(***************************************************************************)
(* Discovery keys.  D is self.instance_discovery_store: full key ->         *)
(* <<primary_key, namespace, one_time>>.  An Optional tuple is a sequence   *)
(* of length 0 (None) or 1.                                                 *)
(***************************************************************************)
\* _put_instance_discovery
PutInstanceDiscovery(D, key, primary_key, namespace, one_time) ==
    DictSet(D, key, <<primary_key, namespace, one_time>>)

\* _get_instance_discovery: deepcopy(self.instance_discovery_store.get(key, None))
GetInstanceDiscovery(D, key) == IF key \in DOMAIN D THEN <<D[key]>> ELSE <<>>

\* InMemoryStore.delete_instance_discovery: pop(key, None)
DeleteInstanceDiscovery(D, key) == DictDel(D, key)

\* Store._delete_instance_discovery: the backend defines no method of this
\* name, so the call runs the body the base class gives it, which is pass
StoreDeleteInstanceDiscovery(D, key) == D

\* instance_discovery that deletes whatever entry it resolves
InstanceDiscoveryPopsAlways(D, key) ==
    LET result == GetInstanceDiscovery(D, key)
    IN  IF result = <<>>
        THEN [raised |-> "NotFoundException", ret |-> None, D |-> D]
        ELSE [raised |-> None, ret |-> <<result[1][1], result[1][2]>>,
              D |-> DeleteInstanceDiscovery(D, key)]

\* instance_discovery: [raised, ret, D]
InstanceDiscoveryOp(D, key) ==
    LET result == GetInstanceDiscovery(D, key)
    IN  IF result = <<>>
        THEN [raised |-> "NotFoundException", ret |-> None, D |-> D]
        ELSE [raised |-> None, ret |-> <<result[1][1], result[1][2]>>,
              D |-> IF result[1][3] THEN StoreDeleteInstanceDiscovery(D, key) ELSE D]

\* Instance._full_key_helper: f"{guid}:{key_type}:{key}" (no part used here
\* contains a colon, so the three parts identify the string)
FullKeyHelper(guid, key_type, key) == <<guid, key_type, key>>

\* Instance.assign_discovery_key of an instance with the given int_guid,
\* primary_key and namespace; uuid is the value str(uuid4()) would yield
AssignDiscoveryKeyOp(D, int_guid, primary_key, namespace, key_type, key, one_time, uuid) ==
    LET key1 == IF ~Truthy(key) THEN uuid ELSE key
        full_key == FullKeyHelper(int_guid, key_type, key1)
    IN  IF primary_key = None
        THEN [raised |-> "IlpasValueError", ret |-> None, D |-> D]
        ELSE [raised |-> None, ret |-> key1,
              D |-> PutInstanceDiscovery(D, full_key, primary_key, namespace, one_time)]

(***************************************************************************)
(* Collection store: the Store contract of reagent/reagent/core/store.py   *)
(* over the in-memory backend of reagent/reagent/dx/local_store.py.        *)
(* L = [_data, _searchable_fields, _data_fields, _model_classes] is the    *)
(* backend's four dicts, each keyed by namespace and then by collection.   *)
(* Every operation yields [raised, ret, L].                                *)
(***************************************************************************)
LocalOutcome(raised, ret, L) == [raised |-> raised, ret |-> ret, L |-> L]

\* InMemoryStore.__init__
EmptyLocalStore ==
    [_data |-> EmptyDict, _searchable_fields |-> EmptyDict, _data_fields |-> EmptyDict,
     _model_classes |-> EmptyDict]

\* check_namespace
LocalCheckNamespace(L, namespace) == namespace \in DOMAIN L._data

\* _create_new_namespace
CreateNewNamespace(L, namespace) ==
    [_data |-> DictSet(L._data, namespace, EmptyDict),
     _searchable_fields |-> DictSet(L._searchable_fields, namespace, EmptyDict),
     _data_fields |-> DictSet(L._data_fields, namespace, EmptyDict),
     _model_classes |-> DictSet(L._model_classes, namespace, EmptyDict)]

\* _delete_namespace
LocalDeleteNamespace(L, namespace) ==
    [_data |-> DictDel(L._data, namespace),
     _searchable_fields |-> DictDel(L._searchable_fields, namespace),
     _data_fields |-> DictDel(L._data_fields, namespace),
     _model_classes |-> DictDel(L._model_classes, namespace)]

\* create_namespace that creates without looking
CreateNamespaceUnchecked(L, namespace) ==
    LocalOutcome(None, None, CreateNewNamespace(L, namespace))

\* create_namespace
CreateNamespaceOp(L, namespace) ==
    IF ~LocalCheckNamespace(L, namespace)
    THEN LocalOutcome(None, None, CreateNewNamespace(L, namespace))
    ELSE LocalOutcome("ConflictError", None, L)

\* delete_namespace
DeleteNamespaceOp(L, namespace) ==
    IF LocalCheckNamespace(L, namespace)
    THEN LocalOutcome(None, None, LocalDeleteNamespace(L, namespace))
    ELSE LocalOutcome("NotFoundError", None, L)

\* _default_namespace_helper
DefaultNamespaceHelper(namespace) ==
    IF namespace # None THEN namespace ELSE default_namespace

\* resolve_namespace
ResolveNamespace(L, namespace) ==
    LET ns == DefaultNamespaceHelper(namespace)
    IN  IF LocalCheckNamespace(L, ns)
        THEN LocalOutcome(None, ns, L)
        ELSE LocalOutcome("NotFoundError", None, L)

\* ensure_namespace
EnsureNamespace(L, namespace) ==
    LET r == ResolveNamespace(L, namespace)
    IN  IF r.raised = "NotFoundError"
        THEN LET ns == DefaultNamespaceHelper(namespace)
                 c == CreateNamespaceOp(L, ns)
             IN  IF c.raised # None THEN c ELSE LocalOutcome(None, ns, c.L)
        ELSE r

\* _check_collection
LocalCheckCollection(L, collection, namespace) ==
    namespace \in DOMAIN L._data /\ collection \in DOMAIN L._data[namespace]

\* _create_nonexistent_collection; type(getattr(model_class, field, None))
\* is the type recorded for each search field
CreateNonexistentCollection(L, collection, namespace, model_class) ==
    LET L1 == IF namespace \notin DOMAIN L._data THEN CreateNewNamespace(L, namespace) ELSE L
    IN  [_data |-> [L1._data EXCEPT ![namespace] = DictSet(@, collection, EmptyDict)],
         _searchable_fields |->
            [L1._searchable_fields EXCEPT ![namespace] =
                DictSet(@, collection, [field \in model_class.search_fields |-> "NoneType"])],
         _data_fields |-> [L1._data_fields EXCEPT ![namespace] = DictSet(@, collection, EmptyDict)],
         _model_classes |->
            [L1._model_classes EXCEPT ![namespace] = DictSet(@, collection, model_class)]]

\* create_collection for one namespace
CreateCollectionOp(L, collection, model_class, namespace) ==
    LET r == ResolveNamespace(L, namespace)
    IN  IF r.raised # None THEN r
        ELSE IF ~LocalCheckCollection(L, collection, r.ret)
        THEN LocalOutcome(None, None,
                          CreateNonexistentCollection(L, collection, r.ret, model_class))
        ELSE LocalOutcome("ConflictError", None, L)

\* delete_collection for one namespace
DeleteCollectionOp(L, collection, namespace) ==
    LET r == ResolveNamespace(L, namespace)
    IN  IF r.raised # None THEN r
        ELSE IF LocalCheckCollection(L, collection, r.ret)
        THEN LocalOutcome(None, None,
                [_data |-> [L._data EXCEPT ![r.ret] = DictDel(@, collection)],
                 _searchable_fields |-> [L._searchable_fields EXCEPT ![r.ret] = DictDel(@, collection)],
                 _data_fields |-> [L._data_fields EXCEPT ![r.ret] = DictDel(@, collection)],
                 _model_classes |-> [L._model_classes EXCEPT ![r.ret] = DictDel(@, collection)]])
        ELSE LocalOutcome("NotFoundError", None, L)

\* _ns_and_col_helper; check_collection resolves the namespace once more
NsAndColHelper(L, namespace, collection) ==
    LET r == ResolveNamespace(L, namespace)
    IN  IF r.raised # None THEN r
        ELSE IF ResolveNamespace(L, r.ret).raised # None THEN ResolveNamespace(L, r.ret)
        ELSE IF ~LocalCheckCollection(L, collection, r.ret)
        THEN LocalOutcome("NotFoundError", None, L)
        ELSE r

\* _check_pks
CheckPks(L, collection, pks, namespace) ==
    /\ namespace \in DOMAIN L._data
    /\ collection \in DOMAIN L._data[namespace]
    /\ \A pk \in pks : pk \in DOMAIN L._data[namespace][collection]

\* bool() of self._check_pks(...) as create_item, update_item and
\* delete_item call it: without await, so of the coroutine object
CheckPksNotAwaited(L, collection, pks, namespace) == TRUE

\* the DataStructure stored for an item
DataStructure(item, created_at, updated_at) ==
    [search_data |-> item.search_data, data |-> item.data,
     created_at |-> created_at, updated_at |-> updated_at]

\* _create_given_pk, with now the value of datetime.now()
CreateGivenPk(L, pk, collection, item, namespace, now) ==
    IF ~LocalCheckCollection(L, collection, namespace)
    THEN LocalOutcome("NotFoundError", None, L)
    ELSE IF pk \in DOMAIN L._data[namespace][collection]
    THEN LocalOutcome("ConflictError", None, L)
    ELSE LocalOutcome(None, pk,
            [L EXCEPT !._data[namespace][collection] =
                DictSet(@, pk, DataStructure(item, now, now))])

\* _create_new_pk, with pk the first str(uuid4()) not yet in the collection
CreateNewPk(L, pk, collection, item, namespace, now) ==
    IF ~LocalCheckCollection(L, collection, namespace)
    THEN LocalOutcome("NotFoundError", None, L)
    ELSE LocalOutcome(None, pk,
            [L EXCEPT !._data[namespace][collection] =
                DictSet(@, pk, DataStructure(item, now, now))])

\* _update_pk
UpdatePk(L, pk, collection, item, namespace, now) ==
    IF ~CheckPks(L, collection, {pk}, namespace)
    THEN LocalOutcome("NotFoundError", None, L)
    ELSE LocalOutcome(None, pk,
            [L EXCEPT !._data[namespace][collection][pk] =
                DataStructure(item, @.created_at, now)])

\* _delete_pk
DeletePk(L, collection, pk, namespace) ==
    IF ~CheckPks(L, collection, {pk}, namespace)
    THEN LocalOutcome("NotFoundError", None, L)
    ELSE LocalOutcome(None, None,
            [L EXCEPT !._data[namespace][collection] = DictDel(@, pk)])

\* create_item; new_pk is the key _create_new_pk would generate
CreateItemOp(L, collection, item, namespace, new_pk, now) ==
    LET r == NsAndColHelper(L, namespace, collection)
    IN  IF r.raised # None THEN r
        ELSE IF item.pk # None
        THEN IF CheckPksNotAwaited(L, collection, {item.pk}, r.ret)
             THEN LocalOutcome("ConflictError", None, L)
             ELSE CreateGivenPk(L, item.pk, collection, item, r.ret, now)
        ELSE CreateNewPk(L, new_pk, collection, item, r.ret, now)

\* update_item
UpdateItemOp(L, collection, item, namespace, now) ==
    LET r == NsAndColHelper(L, namespace, collection)
    IN  IF r.raised # None THEN r
        ELSE IF item.pk = None
        THEN LocalOutcome("ValueError", None, L)
        ELSE IF CheckPksNotAwaited(L, collection, {item.pk}, r.ret)
        THEN UpdatePk(L, item.pk, collection, item, r.ret, now)
        ELSE LocalOutcome("NotFoundError", None, L)

\* delete_item
DeleteItemOp(L, collection, pk, namespace) ==
    LET r == NsAndColHelper(L, namespace, collection)
    IN  IF r.raised # None THEN r
        ELSE IF CheckPksNotAwaited(L, collection, {pk}, r.ret)
        THEN DeletePk(L, collection, pk, r.ret)
        ELSE LocalOutcome("NotFoundError", None, L)

(***************************************************************************)
(* State machine.  store, label_index and guid_index are the backend's     *)
(* dicts; next_uuid counts the uuid4() values drawn so far (the i-th is    *)
(* UuidNames[i], never equal to an earlier key); last is the most recent   *)
(* call: its name and the exception it raised (None when it returned).     *)
(* tasks holds, for each coroutine run step by step, the await it is       *)
(* suspended at (pc) and its local variables.  held is a labels dict the   *)
(* caller keeps and passes again: its value and the records <<ns, pk>>     *)
(* whose "labels" is that very object (the store keeps the caller's dict,  *)
(* store.py:323 and 362, it does not copy it).  tokens are the ciphertexts *)
(* _encrypt has produced.  local_store is the collection store's backend. *)
(***************************************************************************)
Cur == Backend(store, label_index, guid_index)

Call(op, r) == [op |-> op, raised |-> r.raised]

\* the call's effect on the backend
Apply(r) ==
    /\ store' = r.G.store
    /\ label_index' = r.G.label_index
    /\ guid_index' = r.G.guid_index
    /\ UNCHANGED <<instance_discovery_store, encryptor, held, tokens, tasks, local_store>>

\* keys a caller can name: its own, and those put_by_labels has returned
KnownKeys(user_keys) == user_keys \cup {UuidNames[i] : i \in 1..(next_uuid - 1)}

\* the coroutines that may be in flight at once
Tasks == {"t1", "t2"}

\* a task that has not called anything yet
Idle == [pc |-> "idle"]

\* InMemoryStore.__init__
Init ==
    /\ store = EmptyDict
    /\ label_index = EmptyDict
    /\ guid_index = EmptyDict
    /\ instance_discovery_store = EmptyDict
    /\ encryptor = EncryptionKeys(PrimaryEncryptionKey, SecondaryEncryptionKeys)
    /\ held = [value |-> EmptyDict, holders |-> {}]
    /\ tokens = {}
    /\ tasks = [t \in Tasks |-> Idle]
    /\ next_uuid = 1
    /\ local_store = EmptyLocalStore
    /\ last = [op |-> "init", raised |-> None]

PutByPrimaryKey(value, guid, labels, primary_key, namespace, throw_on_not_found) ==
    LET r == PutByPrimaryKeyOp(Cur, value, guid, labels, primary_key, namespace,
                               throw_on_not_found)
    IN  /\ Apply(r)
        /\ last' = Call("put_by_primary_key", r)
        /\ UNCHANGED next_uuid

\* uuid4() is called only on the insert path; max_uuid caps how many are drawn
PutByLabels(value, guid, labels, namespace, max_uuid) ==
    LET pkey == UuidNames[next_uuid]
        r == PutByLabelsOp(Cur, value, guid, labels, namespace, pkey)
        drawn == r.raised = None /\ r.ret = pkey
    IN  /\ drawn => next_uuid <= max_uuid
        /\ Apply(r)
        /\ last' = Call("put_by_labels", r)
        /\ next_uuid' = IF drawn THEN next_uuid + 1 ELSE next_uuid

GetByPrimaryKey(primary_key, namespace) ==
    LET r == GetByPrimaryKeyOp(Cur, primary_key, namespace)
    IN  /\ Apply(r)
        /\ last' = Call("get_by_primary_key", r)
        /\ UNCHANGED next_uuid

GetByLabels(guid, labels, namespace) ==
    LET r == GetByLabelsOp(Cur, guid, labels, namespace)
    IN  /\ Apply(r)
        /\ last' = Call("get_by_labels", r)
        /\ UNCHANGED next_uuid

Search(guid, partial_labels, namespace) ==
    LET r == SearchOp(Cur, guid, partial_labels, namespace)
    IN  /\ Apply(r)
        /\ last' = Call("search", r)
        /\ UNCHANGED next_uuid

DeleteByPrimaryKey(primary_key, namespace) ==
    LET r == DeleteByPrimaryKeyOp(Cur, primary_key, namespace)
    IN  /\ Apply(r)
        /\ last' = Call("delete_by_primary_key", r)
        /\ UNCHANGED next_uuid

\* a write's effect on the backend and on the caller's dict
ApplySharing(r) ==
    /\ store' = r.G.store
    /\ label_index' = r.G.label_index
    /\ guid_index' = r.G.guid_index
    /\ held' = r.held
    /\ UNCHANGED <<instance_discovery_store, encryptor, tokens, tasks, local_store>>

\* put_by_primary_key by a caller that may pass the dict it holds
TenantPutByPrimaryKey(value, guid, labels, pass_held, primary_key, namespace, throw_on_not_found) ==
    LET r == PutByPrimaryKeySharing(Cur, held, value, guid, labels, pass_held, primary_key,
                                    namespace, throw_on_not_found)
    IN  /\ ApplySharing(r)
        /\ last' = Call("put_by_primary_key", r)
        /\ UNCHANGED next_uuid

TenantPutByLabels(value, guid, labels, namespace, max_uuid) ==
    LET pkey == UuidNames[next_uuid]
        r == PutByLabelsSharing(Cur, held, value, guid, labels, namespace, pkey)
        drawn == r.raised = None /\ r.ret = pkey
    IN  /\ drawn => next_uuid <= max_uuid
        /\ ApplySharing(r)
        /\ last' = Call("put_by_labels", r)
        /\ next_uuid' = IF drawn THEN next_uuid + 1 ELSE next_uuid

TenantDeleteByPrimaryKey(primary_key, namespace) ==
    LET r == DeleteByPrimaryKeySharing(Cur, held, primary_key, namespace)
    IN  /\ ApplySharing(r)
        /\ last' = Call("delete_by_primary_key", r)
        /\ UNCHANGED next_uuid

\* a discovery operation touches nothing but the discovery-key map
ApplyDiscovery(r) ==
    /\ instance_discovery_store' = r.D
    /\ UNCHANGED <<store, label_index, guid_index, encryptor, held, tokens, tasks, local_store>>

\* uuid4() is called whenever no key is supplied, before primary_key is looked at
AssignDiscoveryKey(instance, key_type, key, one_time, max_uuid) ==
    LET r == AssignDiscoveryKeyOp(instance_discovery_store, instance.int_guid,
                                  instance.primary_key, instance.namespace,
                                  key_type, key, one_time, UuidNames[next_uuid])
        drawn == ~Truthy(key)
    IN  /\ drawn => next_uuid <= max_uuid
        /\ ApplyDiscovery(r)
        /\ last' = Call("assign_discovery_key", r)
        /\ next_uuid' = IF drawn THEN next_uuid + 1 ELSE next_uuid

InstanceDiscovery(key) ==
    LET r == InstanceDiscoveryOp(instance_discovery_store, key)
    IN  /\ ApplyDiscovery(r)
        /\ last' = Call("instance_discovery", r)
        /\ UNCHANGED next_uuid

DeleteInstanceDiscoveryCall(key) ==
    /\ instance_discovery_store' = DeleteInstanceDiscovery(instance_discovery_store, key)
    /\ last' = [op |-> "delete_instance_discovery", raised |-> None]
    /\ UNCHANGED <<store, label_index, guid_index, encryptor, held, tokens, tasks, next_uuid, local_store>>

(***************************************************************************)
(* Calls run as concurrent coroutines.  A step runs a task from one await  *)
(* of the Store method to the next; the backend call awaited takes effect  *)
(* in the step that resumes from it.                                       *)
(***************************************************************************)
\* instance_discovery, lines 188-191: the lookup and the tests on its result
DiscoveryLookup(t, key) ==
    /\ tasks[t].pc = "idle"
    /\ LET result == GetInstanceDiscovery(instance_discovery_store, key)
           call == [op |-> "instance_discovery", key |-> key, result |-> result]
       IN  IF result = <<>>
           THEN /\ tasks' = [tasks EXCEPT ![t] =
                       call @@ [pc |-> "done", raised |-> "NotFoundException"]]
                /\ last' = [op |-> "instance_discovery", raised |-> "NotFoundException"]
           ELSE IF result[1][3]
           THEN /\ tasks' = [tasks EXCEPT ![t] = call @@ [pc |-> "delete", raised |-> None]]
                /\ UNCHANGED last
           ELSE /\ tasks' = [tasks EXCEPT ![t] = call @@ [pc |-> "done", raised |-> None]]
                /\ last' = [op |-> "instance_discovery", raised |-> None]
    /\ UNCHANGED <<store, label_index, guid_index, instance_discovery_store, encryptor, held, tokens,
                   next_uuid, local_store>>

\* instance_discovery, lines 192-193: the delete of a one-time key and the return
DiscoveryDelete(t) ==
    /\ tasks[t].pc = "delete"
    /\ instance_discovery_store' =
           StoreDeleteInstanceDiscovery(instance_discovery_store, tasks[t].key)
    /\ tasks' = [tasks EXCEPT ![t].pc = "done"]
    /\ last' = [op |-> "instance_discovery", raised |-> None]
    /\ UNCHANGED <<store, label_index, guid_index, encryptor, held, tokens, next_uuid, local_store>>

\* the record dicts after a step, nothing else touched but tasks and last
ApplyStep(G) ==
    /\ store' = G.store
    /\ label_index' = G.label_index
    /\ guid_index' = G.guid_index
    /\ UNCHANGED <<instance_discovery_store, encryptor, held, tokens, local_store>>

\* a put_by_labels call that has ended
PutDone(call, raised, ret) == [pc |-> "done", raised |-> raised, ret |-> ret] @@ call

\* put_by_labels, line 360 down to _check_namespace inside _get_namespace
\* (lines 212-217): the namespace exists, or NotFoundException is caught
\* (line 230) and _create_namespace is awaited next
PutByLabelsCheckNamespace(t, value, guid, labels, namespace) ==
    /\ tasks[t].pc = "idle"
    /\ LET ns == GetNamespaceName(namespace)
           call == [op |-> "put_by_labels", value |-> value, guid |-> guid,
                    labels |-> labels, ns |-> ns]
       IN  tasks' = [tasks EXCEPT ![t] =
                        call @@ [pc |-> IF CheckNamespace(Cur, ns) THEN "find" ELSE "create"]]
    /\ UNCHANGED <<store, label_index, guid_index, instance_discovery_store, encryptor, held, tokens,
                   next_uuid, last, local_store>>

\* _ensure_namespace_exists, lines 231-233: _create_namespace
PutByLabelsCreateNamespace(t) ==
    /\ tasks[t].pc = "create"
    /\ ApplyStep(CreateNamespace(Cur, tasks[t].ns))
    /\ tasks' = [tasks EXCEPT ![t].pc = "find"]
    /\ UNCHANGED <<next_uuid, last>>

\* put_by_labels, lines 361-368: _find_primary_keys_by_labels and
\* _ensure_single_or_no_match
PutByLabelsFind(t) ==
    /\ tasks[t].pc = "find"
    /\ LET call == tasks[t]
           f == FindPrimaryKeysByLabels(Slice(Cur, call.ns), call.guid, ItemsOf(call.labels))
           existing_key == EnsureSingleOrNoMatch(f.ret)
       IN  /\ ApplyStep(WithSlice(Cur, call.ns, f.N))
           /\ IF existing_key.raised # None
              THEN /\ tasks' = [tasks EXCEPT ![t] = PutDone(call, existing_key.raised, None)]
                   /\ last' = [op |-> "put_by_labels", raised |-> existing_key.raised]
              ELSE /\ tasks' = [tasks EXCEPT ![t] =
                          [pc |-> "write", existing_key |-> existing_key.ret] @@ call]
                   /\ UNCHANGED last
    /\ UNCHANGED next_uuid

\* put_by_labels, lines 368-373: _update_existing_pkey (whose first line is
\* self.store[namespace][primary_key], a KeyError when the record is gone)
\* or _insert_new_pkey
PutByLabelsWrite(t) ==
    /\ tasks[t].pc = "write"
    /\ LET call == tasks[t]
           N == Slice(Cur, call.ns)
           model == StoreModel(Encrypt(call.value), call.labels, call.guid)
           update == Truthy(call.existing_key)
           u == IF update
                THEN IF call.existing_key \in DOMAIN N.store
                     THEN UpdateExistingPkey(N, call.existing_key, model)
                     ELSE [raised |-> "KeyError", ret |-> None, N |-> N]
                ELSE InsertNewPkey(N, UuidNames[next_uuid], model)
       IN  /\ ApplyStep(WithSlice(Cur, call.ns, u.N))
           /\ tasks' = [tasks EXCEPT ![t] = PutDone(call, u.raised, u.ret)]
           /\ last' = [op |-> "put_by_labels", raised |-> u.raised]
           /\ next_uuid' = IF update THEN next_uuid ELSE next_uuid + 1

\* Store.__init__ over the data already persisted: a deployment with a new
\* key list
NewStore(primary_encryption_key, secondary_encryption_keys) ==
    /\ encryptor' = EncryptionKeys(primary_encryption_key, secondary_encryption_keys)
    /\ last' = [op |-> "__init__", raised |-> None]
    /\ UNCHANGED <<store, label_index, guid_index, instance_discovery_store, held, tokens,
                   tasks, next_uuid, local_store>>

\* _encrypt of a bundle; the ciphertext is kept
EncryptValue(value) ==
    /\ tokens' = tokens \cup {Encrypt(value)}
    /\ last' = [op |-> "_encrypt", raised |-> None]
    /\ UNCHANGED <<store, label_index, guid_index, instance_discovery_store, encryptor, held,
                   tasks, next_uuid, local_store>>

\* _decrypt of a ciphertext made earlier
DecryptToken(encrypted_value) ==
    /\ last' = [op |-> "_decrypt", raised |-> Decrypt(encrypted_value).raised]
    /\ UNCHANGED <<store, label_index, guid_index, instance_discovery_store, encryptor, held,
                   tokens, tasks, next_uuid, local_store>>

\* namespace_to_schema called with a namespace argument
NamespaceToSchemaCall(namespace) ==
    /\ last' = [op |-> "namespace_to_schema", raised |-> NamespaceToSchema(namespace).raised]
    /\ UNCHANGED <<store, label_index, guid_index, instance_discovery_store, encryptor, held,
                   tokens, tasks, next_uuid, local_store>>

\* the call's effect on the collection store
LocalApply(op, r) ==
    /\ local_store' = r.L
    /\ last' = [op |-> op, raised |-> r.raised]
    /\ UNCHANGED <<store, label_index, guid_index, instance_discovery_store, encryptor, held,
                   tokens, tasks>>

CreateNamespaceCall(namespace) ==
    /\ LocalApply("create_namespace", CreateNamespaceOp(local_store, namespace))
    /\ UNCHANGED next_uuid

DeleteNamespaceCall(namespace) ==
    /\ LocalApply("delete_namespace", DeleteNamespaceOp(local_store, namespace))
    /\ UNCHANGED next_uuid

EnsureNamespaceCall(namespace) ==
    /\ LocalApply("ensure_namespace", EnsureNamespace(local_store, namespace))
    /\ UNCHANGED next_uuid

CreateCollection(collection, model_class, namespace) ==
    /\ LocalApply("create_collection",
                  CreateCollectionOp(local_store, collection, model_class, namespace))
    /\ UNCHANGED next_uuid

DeleteCollection(collection, namespace) ==
    /\ LocalApply("delete_collection", DeleteCollectionOp(local_store, collection, namespace))
    /\ UNCHANGED next_uuid

\* uuid4() is called only when the item has no pk and the collection exists
CreateItem(collection, item, namespace, now, max_uuid) ==
    LET r == CreateItemOp(local_store, collection, item, namespace, UuidNames[next_uuid], now)
        drawn == r.raised = None /\ item.pk = None
    IN  /\ drawn => next_uuid <= max_uuid
        /\ LocalApply("create_item", r)
        /\ next_uuid' = IF drawn THEN next_uuid + 1 ELSE next_uuid

UpdateItem(collection, item, namespace, now) ==
    /\ LocalApply("update_item", UpdateItemOp(local_store, collection, item, namespace, now))
    /\ UNCHANGED next_uuid

DeleteItem(collection, pk, namespace) ==
    /\ LocalApply("delete_item", DeleteItemOp(local_store, collection, pk, namespace))
    /\ UNCHANGED next_uuid

\* the guid arguments of a lookup
GuidArgs == Guids \cup {None}

\* the label dicts callers pass
LabelDicts == Dicts(LabelKeys, LabelValues)

\* the same, in every insertion order
LabelItems == UNION {Items(d) : d \in LabelDicts}

Next ==
    \/ \E value \in ValueDicts, guid \in Guids, labels \in LabelDicts,
          primary_key \in KnownKeys(UserKeys), throw_on_not_found \in BOOLEAN :
            PutByPrimaryKey(value, guid, labels, primary_key, None, throw_on_not_found)
    \/ \E value \in ValueDicts, guid \in Guids, labels \in LabelDicts :
            PutByLabels(value, guid, labels, None, MaxUuid)
    \/ \E primary_key \in KnownKeys(UserKeys) : GetByPrimaryKey(primary_key, None)
    \/ \E guid \in Guids, labels \in LabelDicts : GetByLabels(guid, labels, None)
    \/ \E guid \in Guids \cup {None}, partial_labels \in LabelItems :
            Search(guid, partial_labels, None)
    \/ \E primary_key \in KnownKeys(UserKeys) : DeleteByPrimaryKey(primary_key, None)

Spec == Init /\ [][Next]_vars

\* records are created and updated through put_by_labels only
NextLabelsOnly ==
    \/ \E value \in ValueDicts, guid \in Guids, labels \in LabelDicts :
            PutByLabels(value, guid, labels, None, MaxUuidLabelsOnly)
    \/ \E primary_key \in KnownKeys(UserKeys) : GetByPrimaryKey(primary_key, None)
    \/ \E guid \in Guids, labels \in LabelDicts : GetByLabels(guid, labels, None)
    \/ \E guid \in Guids \cup {None}, partial_labels \in LabelItems :
            Search(guid, partial_labels, None)
    \/ \E primary_key \in KnownKeys(UserKeys) : DeleteByPrimaryKey(primary_key, None)

SpecLabelsOnly == Init /\ [][NextLabelsOnly]_vars

\* callers name the empty string as primary key
NextEmptyKey ==
    \/ \E value \in ValueDicts, guid \in Guids, labels \in LabelDicts,
          primary_key \in KnownKeys(EmptyKeys), throw_on_not_found \in BOOLEAN :
            PutByPrimaryKey(value, guid, labels, primary_key, None, throw_on_not_found)
    \/ \E value \in ValueDicts, guid \in Guids, labels \in LabelDicts :
            PutByLabels(value, guid, labels, None, MaxUuid)
    \/ \E primary_key \in KnownKeys(EmptyKeys) : GetByPrimaryKey(primary_key, None)
    \/ \E guid \in Guids, labels \in LabelDicts : GetByLabels(guid, labels, None)
    \/ \E guid \in Guids \cup {None}, partial_labels \in LabelItems :
            Search(guid, partial_labels, None)
    \/ \E primary_key \in KnownKeys(EmptyKeys) : DeleteByPrimaryKey(primary_key, None)

SpecEmptyKey == Init /\ [][NextEmptyKey]_vars

\* uuid4() values drawn in a run of SpecDiscovery
MaxUuidDiscovery == 1

\* the instances that assign discovery keys: saved ones and one never saved
Instances ==
    {[int_guid |-> "slack", primary_key |-> "p1", namespace |-> None],
     [int_guid |-> "slack", primary_key |-> "p2", namespace |-> "acme"],
     [int_guid |-> "slack", primary_key |-> None, namespace |-> None]}

KeyTypes == {"callback", "webhook"}

\* the key a caller supplies; None and "" ask for a generated one
DiscoveryKeys == {"k1", None}

\* the full keys a caller can resolve: supplied keys and generated ones
KnownFullKeys ==
    {FullKeyHelper(i.int_guid, key_type, key) :
        i \in Instances, key_type \in KeyTypes, key \in KnownKeys(DiscoveryKeys \ {None})}

\* discovery keys are assigned, resolved and deleted
NextDiscovery ==
    \/ \E instance \in Instances, key_type \in KeyTypes, key \in DiscoveryKeys,
          one_time \in BOOLEAN :
            AssignDiscoveryKey(instance, key_type, key, one_time, MaxUuidDiscovery)
    \/ \E key \in KnownFullKeys : InstanceDiscovery(key)
    \/ \E key \in KnownFullKeys : DeleteInstanceDiscoveryCall(key)

SpecDiscovery == Init /\ [][NextDiscovery]_vars

\* keys are assigned first; then each task resolves one key, step by step
NextConcurrentDiscovery ==
    \/ /\ \A t \in Tasks : tasks[t].pc = "idle"
       /\ \E instance \in Instances, key_type \in KeyTypes, one_time \in BOOLEAN :
             AssignDiscoveryKey(instance, key_type, "k1", one_time, MaxUuidDiscovery)
    \/ \E t \in Tasks, key \in KnownFullKeys : DiscoveryLookup(t, key)
    \/ \E t \in Tasks : DiscoveryDelete(t)

SpecConcurrentDiscovery == Init /\ [][NextConcurrentDiscovery]_vars

\* each task makes one put_by_labels call, step by step
NextConcurrentPut ==
    \/ \E t \in Tasks, value \in ValueDicts, guid \in Guids, labels \in LabelDicts :
            PutByLabelsCheckNamespace(t, value, guid, labels, None)
    \/ \E t \in Tasks : PutByLabelsCreateNamespace(t)
    \/ \E t \in Tasks : PutByLabelsFind(t)
    \/ \E t \in Tasks : PutByLabelsWrite(t)

SpecConcurrentPut == Init /\ [][NextConcurrentPut]_vars

\* uuid4() values drawn in a run of SpecNamespaces
MaxUuidNamespaces == 1

\* the namespace arguments of SpecNamespaces: the default namespace and a
\* tenant's
NamespaceNames == {None, "acme"}

\* the guids and label dicts the tenants use
TenantGuids == {"slack"}

TenantLabelDicts == {EmptyDict, [team |-> "eng"]}

TenantLabelItems == UNION {Items(d) : d \in TenantLabelDicts}

\* the record operations, each scoped to a namespace the caller names; the
\* caller of put_by_primary_key names its own keys and passes a fresh labels
\* dict or the one it holds
NextNamespaces ==
    \/ \E value \in ValueDicts, guid \in TenantGuids, labels \in TenantLabelDicts,
          pass_held \in BOOLEAN, primary_key \in UserKeys,
          namespace \in NamespaceNames, throw_on_not_found \in BOOLEAN :
            TenantPutByPrimaryKey(value, guid, labels, pass_held, primary_key, namespace,
                                  throw_on_not_found)
    \/ \E value \in ValueDicts, guid \in TenantGuids, labels \in TenantLabelDicts,
          namespace \in NamespaceNames :
            TenantPutByLabels(value, guid, labels, namespace, MaxUuidNamespaces)
    \/ \E primary_key \in KnownKeys(UserKeys), namespace \in NamespaceNames :
            GetByPrimaryKey(primary_key, namespace)
    \/ \E guid \in TenantGuids, labels \in TenantLabelDicts, namespace \in NamespaceNames :
            GetByLabels(guid, labels, namespace)
    \/ \E guid \in TenantGuids \cup {None}, partial_labels \in TenantLabelItems,
          namespace \in NamespaceNames :
            Search(guid, partial_labels, namespace)
    \/ \E primary_key \in KnownKeys(UserKeys), namespace \in NamespaceNames :
            TenantDeleteByPrimaryKey(primary_key, namespace)

SpecNamespaces == Init /\ [][NextNamespaces]_vars

\* uuid4() values drawn in a run of SpecBundles
MaxUuidBundles == 1

\* config bundles with and without the optional callback and state parts
Bundles ==
    {[user |-> [x |-> 1], admin |-> [secret |-> "s1"]],
     [user |-> [x |-> 2], admin |-> [secret |-> "s2"], callback |-> [token |-> "t1"]],
     [user |-> [x |-> 1], admin |-> [secret |-> "s2"], callback |-> [token |-> "t1"],
      state |-> [x |-> 2]]}

\* records holding different bundles, written and read back on one guid
NextBundles ==
    \/ \E value \in Bundles, labels \in TenantLabelDicts, primary_key \in KnownKeys(UserKeys) :
            PutByPrimaryKey(value, "slack", labels, primary_key, None, FALSE)
    \/ \E value \in Bundles, labels \in TenantLabelDicts :
            PutByLabels(value, "slack", labels, None, MaxUuidBundles)
    \/ \E primary_key \in KnownKeys(UserKeys) : GetByPrimaryKey(primary_key, None)
    \/ \E labels \in TenantLabelDicts : GetByLabels("slack", labels, None)
    \/ \E partial_labels \in TenantLabelItems : Search("slack", partial_labels, None)
    \/ \E primary_key \in KnownKeys(UserKeys) : DeleteByPrimaryKey(primary_key, None)

SpecBundles == Init /\ [][NextBundles]_vars

\* the longest secondary_encryption_keys list of SpecKeys
MaxSecondaryKeys == 1

FernetKeys == {"K1", "K2", "K3"}

\* every Optional[List[str]] of keys up to that length
SecondaryKeyLists ==
    {<<>>} \cup {<<l>> : l \in UNION {[1..n -> FernetKeys] : n \in 0..MaxSecondaryKeys}}

\* deployments with changing key lists encrypting and decrypting bundles
NextKeys ==
    \/ \E primary_encryption_key \in FernetKeys, secondary_encryption_keys \in SecondaryKeyLists :
            NewStore(primary_encryption_key, secondary_encryption_keys)
    \/ \E value \in Bundles : EncryptValue(value)
    \/ \E encrypted_value \in tokens : DecryptToken(encrypted_value)

SpecKeys == Init /\ [][NextKeys]_vars

\* uuid4() values drawn in a run of SpecDefaultName
MaxUuidDefaultName == 1

\* namespace arguments: absent, the default namespace by name, a tenant
DefaultNameArgs == {None, default_namespace, "acme"}

\* callers that name the default namespace, leave it out or name a tenant
NextDefaultName ==
    \/ \E value \in ValueDicts, labels \in TenantLabelDicts, primary_key \in UserKeys,
          namespace \in DefaultNameArgs, throw_on_not_found \in BOOLEAN :
            PutByPrimaryKey(value, "slack", labels, primary_key, namespace, throw_on_not_found)
    \/ \E value \in ValueDicts, labels \in TenantLabelDicts, namespace \in DefaultNameArgs :
            PutByLabels(value, "slack", labels, namespace, MaxUuidDefaultName)
    \/ \E primary_key \in KnownKeys(UserKeys), namespace \in DefaultNameArgs :
            GetByPrimaryKey(primary_key, namespace)
    \/ \E labels \in TenantLabelDicts, namespace \in DefaultNameArgs :
            GetByLabels("slack", labels, namespace)
    \/ \E partial_labels \in TenantLabelItems, namespace \in DefaultNameArgs :
            Search("slack", partial_labels, namespace)
    \/ \E primary_key \in KnownKeys(UserKeys), namespace \in DefaultNameArgs :
            DeleteByPrimaryKey(primary_key, namespace)
    \/ \E namespace \in DefaultNameArgs : NamespaceToSchemaCall(namespace)

SpecDefaultName == Init /\ [][NextDefaultName]_vars

\* uuid4() values drawn in a run of SpecCollections
MaxUuidCollections == 1

\* namespaces of the collection store, by name
LocalNamespaces == {default_namespace, "acme"}

Collections == {"c1"}

\* a StoreModel subclass: its __search_fields__
ModelClasses == {[name |-> "M", search_fields |-> {"team"}]}

\* values of datetime.now()
Times == {1, 2}

\* the items a caller passes, with pk as given
ItemsWith(pk) ==
    {[pk |-> pk, search_data |-> [team |-> "eng"], data |-> [x |-> x]] : x \in {1, 2}}

\* namespaces, collections and items of the collection store
NextCollections ==
    \/ \E namespace \in LocalNamespaces : CreateNamespaceCall(namespace)
    \/ \E namespace \in LocalNamespaces : DeleteNamespaceCall(namespace)
    \/ \E namespace \in {None, "acme"} : EnsureNamespaceCall(namespace)
    \/ \E collection \in Collections, model_class \in ModelClasses, namespace \in {None, "acme"} :
            CreateCollection(collection, model_class, namespace)
    \/ \E collection \in Collections, namespace \in {None, "acme"} :
            DeleteCollection(collection, namespace)
    \/ \E collection \in Collections, pk \in KnownKeys(UserKeys) \cup {None}, namespace \in {None, "acme"},
          now \in Times :
            \E item \in ItemsWith(pk) :
                CreateItem(collection, item, namespace, now, MaxUuidCollections)
    \/ \E collection \in Collections, pk \in KnownKeys(UserKeys) \cup {None}, namespace \in {None, "acme"},
          now \in Times :
            \E item \in ItemsWith(pk) : UpdateItem(collection, item, namespace, now)
    \/ \E collection \in Collections, pk \in KnownKeys(UserKeys), namespace \in {None, "acme"} :
            DeleteItem(collection, pk, namespace)

SpecCollections == Init /\ [][NextCollections]_vars

\* uuid4() values drawn in a run of SpecCascade
MaxUuidCascade == 1

\* instances of two namespaces assign discovery keys while namespaces of the
\* same names are created, filled and deleted
NextCascade ==
    \/ \E instance \in {i \in Instances : i.primary_key # None}, key_type \in KeyTypes,
          one_time \in BOOLEAN :
            AssignDiscoveryKey(instance, key_type, "k1", one_time, MaxUuidCascade)
    \/ \E key \in KnownFullKeys : InstanceDiscovery(key)
    \/ \E namespace \in LocalNamespaces : CreateNamespaceCall(namespace)
    \/ \E namespace \in LocalNamespaces : DeleteNamespaceCall(namespace)
    \/ \E collection \in Collections, model_class \in ModelClasses, namespace \in {None, "acme"} :
            CreateCollection(collection, model_class, namespace)
    \/ \E collection \in Collections, namespace \in {None, "acme"}, item \in ItemsWith(None) :
            CreateItem(collection, item, namespace, 1, MaxUuidCascade)

SpecCascade == Init /\ [][NextCascade]_vars

\* uuid4() values drawn in a run of SpecWrites
MaxUuidWrites == 1

\* puts and deletes only: no lookup is called from outside
NextWrites ==
    \/ \E value \in ValueDicts, guid \in Guids, labels \in LabelDicts,
          primary_key \in KnownKeys(UserKeys), throw_on_not_found \in BOOLEAN :
            PutByPrimaryKey(value, guid, labels, primary_key, None, throw_on_not_found)
    \/ \E value \in ValueDicts, guid \in Guids, labels \in LabelDicts :
            PutByLabels(value, guid, labels, None, MaxUuidWrites)
    \/ \E primary_key \in KnownKeys(UserKeys) : DeleteByPrimaryKey(primary_key, None)

SpecWrites == Init /\ [][NextWrites]_vars

\* uuid4() values drawn in a run of SpecDangling
MaxUuidDangling == 1

\* the instances whose record is live: primary_key is set by save and by
\* restore_by_primary_key only
SavedInstances ==
    {i \in Instances :
        /\ i.primary_key # None
        /\ GetNamespaceName(i.namespace) \in DOMAIN store
        /\ i.primary_key \in DOMAIN store[GetNamespaceName(i.namespace)]}

\* records are saved and deleted while their instances assign and resolve
\* discovery keys
NextDangling ==
    \/ \E value \in ValueDicts, labels \in LabelDicts, primary_key \in UserKeys :
            PutByPrimaryKey(value, "slack", labels, primary_key, None, FALSE)
    \/ \E instance \in SavedInstances, key_type \in KeyTypes, key \in DiscoveryKeys,
          one_time \in BOOLEAN :
            AssignDiscoveryKey(instance, key_type, key, one_time, MaxUuidDangling)
    \/ \E key \in KnownFullKeys : InstanceDiscovery(key)
    \/ \E primary_key \in UserKeys : DeleteByPrimaryKey(primary_key, None)

SpecDangling == Init /\ [][NextDangling]_vars

(***************************************************************************)
(* Properties                                                              *)
(***************************************************************************)
\* the namespace arguments callers pass
NamespaceArgs == {None}

ReadOps == {"get_by_primary_key", "get_by_labels", "search"}

\* the live records of namespace ns that have the guid (when one is given)
\* and every (key, value) pair of labels, a sequence of items
Matching(ns, guid, labels) ==
    {pk \in DOMAIN store[ns] :
        /\ guid # None => store[ns][pk].guid = guid
        /\ \A i \in DOMAIN labels :
              /\ labels[i][1] \in DOMAIN store[ns][pk].labels
              /\ store[ns][pk].labels[labels[i][1]] = labels[i][2]}

\* C1: in every reachable state the indices exactly mirror the live records
\* of each namespace: pk is in guid_index[ns][g] iff record pk of ns has guid
\* g, and pk is in label_index[ns][k][v] iff record pk's labels map k to v.
C1_IndicesMirrorRecords ==
    \A ns \in DOMAIN store :
        /\ \A g \in DOMAIN guid_index[ns] : \A pk \in guid_index[ns][g] :
              pk \in DOMAIN store[ns] /\ store[ns][pk].guid = g
        /\ \A k \in DOMAIN label_index[ns] : \A v \in DOMAIN label_index[ns][k] :
              \A pk \in label_index[ns][k][v] :
                 /\ pk \in DOMAIN store[ns]
                 /\ k \in DOMAIN store[ns][pk].labels
                 /\ store[ns][pk].labels[k] = v
        /\ \A pk \in DOMAIN store[ns] :
              /\ store[ns][pk].guid \in DOMAIN guid_index[ns]
              /\ pk \in guid_index[ns][store[ns][pk].guid]
              /\ \A k \in DOMAIN store[ns][pk].labels :
                    /\ k \in DOMAIN label_index[ns]
                    /\ store[ns][pk].labels[k] \in DOMAIN label_index[ns][k]
                    /\ pk \in label_index[ns][k][store[ns][pk].labels[k]]

\* C5: in every reachable state _find_primary_keys_by_labels(ns, guid, labels)
\* returns exactly the live records of ns that have the guid (when given) and
\* every (key, value) pair of labels.
C5_FindEqualsReference ==
    \A ns \in DOMAIN store : \A guid \in GuidArgs : \A labels \in LabelItems :
        FindPrimaryKeysByLabels(Slice(Cur, ns), guid, labels).ret = Matching(ns, guid, labels)

\* some clause of the query has no bucket in the index of namespace ns
BucketAbsent(ns, guid, labels) ==
    \/ guid # None /\ guid \notin DOMAIN guid_index[ns]
    \/ \E i \in DOMAIN labels :
          \/ labels[i][1] \notin DOMAIN label_index[ns]
          \/ labels[i][2] \notin DOMAIN label_index[ns][labels[i][1]]

\* C6: whenever the query names a label (key, value) pair or a guid whose
\* bucket does not exist, _find_primary_keys_by_labels returns the empty set.
C6_AbsentBucketGivesEmpty ==
    \A ns \in DOMAIN store : \A guid \in GuidArgs : \A labels \in LabelItems :
        BucketAbsent(ns, guid, labels) =>
            FindPrimaryKeysByLabels(Slice(Cur, ns), guid, labels).ret = {}

\* C7: get_by_primary_key, get_by_labels and search (and the lookup they
\* share) leave the records and both indices of every namespace unchanged.
C7_ReadsChangeNothing ==
    [][last'.op \in ReadOps => UNCHANGED <<store, label_index, guid_index>>]_vars

\* the records of the namespace a caller names, none when it does not exist
RecordsOf(G, namespace) ==
    IF GetNamespaceName(namespace) \in DOMAIN G.store
    THEN G.store[GetNamespaceName(namespace)]
    ELSE EmptyDict

\* the live records matching (guid, labels) in the namespace a caller names
MatchingIn(namespace, guid, labels) ==
    IF GetNamespaceName(namespace) \in DOMAIN store
    THEN Matching(GetNamespaceName(namespace), guid, ItemsOf(labels))
    ELSE {}

\* the value of the next str(uuid4())
NextUuid == UuidNames[next_uuid]

\* every key a caller could ever name
AllKeys == UserKeys \cup EmptyKeys \cup {UuidNames[i] : i \in DOMAIN UuidNames}

\* C2: put_by_labels called where no live record has the guid and every label
\* inserts a new record under a key not present before, returns that key and
\* leaves every previously existing record unchanged; it updates an existing
\* record only when exactly one live record matches.
C2_PutByLabelsInsertsWhenNoMatch ==
    \A namespace \in NamespaceArgs, value \in ValueDicts, guid \in Guids, labels \in LabelDicts :
        LET r == PutByLabelsOp(Cur, value, guid, labels, namespace, NextUuid)
            before == RecordsOf(Cur, namespace)
            after == RecordsOf(r.G, namespace)
            matches == MatchingIn(namespace, guid, labels)
            changed == {pk \in DOMAIN before : pk \notin DOMAIN after \/ after[pk] # before[pk]}
        IN  /\ matches = {} =>
                /\ r.raised = None
                /\ r.ret \notin DOMAIN before
                /\ r.ret \in DOMAIN after
                /\ changed = {}
            /\ changed # {} => Cardinality(matches) = 1

\* C3: two consecutive put_by_labels calls with identical (guid, labels) in
\* the same namespace return the same primary key and the second does not
\* change the number of records; from an empty namespace exactly one record
\* is stored.
C3_PutByLabelsIdempotent ==
    \A namespace \in NamespaceArgs, value1 \in ValueDicts, value2 \in ValueDicts,
       guid \in Guids, labels \in LabelDicts :
        LET r1 == PutByLabelsOp(Cur, value1, guid, labels, namespace, NextUuid)
            drawn == r1.raised = None /\ r1.ret = NextUuid
            r2 == PutByLabelsOp(r1.G, value2, guid, labels, namespace,
                                UuidNames[IF drawn THEN next_uuid + 1 ELSE next_uuid])
        IN  r1.raised = None =>
                /\ r2.raised = None
                /\ r2.ret = r1.ret
                /\ Cardinality(DOMAIN RecordsOf(r2.G, namespace))
                      = Cardinality(DOMAIN RecordsOf(r1.G, namespace))
                /\ DOMAIN RecordsOf(Cur, namespace) = {} =>
                      DOMAIN RecordsOf(r2.G, namespace) = {r1.ret}

\* C4: when records are created and updated only through put_by_labels, no
\* two live records of a namespace have the same guid and the same label set.
C4_AtMostOneRecordPerGuidLabels ==
    \A ns \in DOMAIN store : \A pk1 \in DOMAIN store[ns], pk2 \in DOMAIN store[ns] :
        pk1 # pk2 =>
            ~(/\ store[ns][pk1].guid = store[ns][pk2].guid
              /\ store[ns][pk1].labels = store[ns][pk2].labels)

\* C8: where more than one live record has the guid and all the labels,
\* get_by_labels raises ConflictError, and put_by_labels raises ConflictError
\* and leaves records and indices unchanged.
C8_AmbiguityRaisesConflict ==
    \A namespace \in NamespaceArgs, value \in ValueDicts, guid \in Guids, labels \in LabelDicts :
        Cardinality(MatchingIn(namespace, guid, labels)) > 1 =>
            /\ GetByLabelsOp(Cur, guid, labels, namespace).raised = "ConflictException"
            /\ LET r == PutByLabelsOp(Cur, value, guid, labels, namespace, NextUuid)
               IN  r.raised = "ConflictException" /\ r.G = Cur

\* C9: on an existing namespace get_by_primary_key raises NotFoundError for
\* a key that has no record, and get_by_labels raises NotFoundError when no
\* record matches.
C9_AbsenceIsNotFound ==
    \A namespace \in NamespaceArgs :
        CheckNamespace(Cur, GetNamespaceName(namespace)) =>
            /\ \A primary_key \in AllKeys \ DOMAIN RecordsOf(Cur, namespace) :
                  GetByPrimaryKeyOp(Cur, primary_key, namespace).raised = "NotFoundException"
            /\ \A guid \in Guids, labels \in LabelDicts :
                  MatchingIn(namespace, guid, labels) = {} =>
                      GetByLabelsOp(Cur, guid, labels, namespace).raised = "NotFoundException"

\* C10: search on an existing namespace never raises, whether zero, one or
\* many records match: every primary key found exists in storage, and it
\* returns exactly one result per primary key found.
C10_SearchNeverRaises ==
    \A namespace \in NamespaceArgs, guid \in GuidArgs, partial_labels \in LabelItems :
        CheckNamespace(Cur, GetNamespaceName(namespace)) =>
            LET r == SearchOp(Cur, guid, partial_labels, namespace)
                found == FindPrimaryKeysByLabels(Slice(Cur, GetNamespaceName(namespace)),
                                                 guid, partial_labels).ret
            IN  /\ r.raised = None
                /\ found \subseteq DOMAIN RecordsOf(Cur, namespace)
                /\ {x.primary_key : x \in r.ret} = found
                /\ Cardinality(r.ret) = Cardinality(found)

\* C10 witness: search has just returned, in a state where a search matches
\* several records and another matches none
C10_Witness ==
    /\ last.op = "search" /\ last.raised = None
    /\ \E namespace \in NamespaceArgs, guid \in GuidArgs, partial_labels \in LabelItems :
          Cardinality(SearchOp(Cur, guid, partial_labels, namespace).ret) > 1
    /\ \E namespace \in NamespaceArgs, guid \in GuidArgs, partial_labels \in LabelItems :
          SearchOp(Cur, guid, partial_labels, namespace).ret = {}

\* C11: a one-time discovery key is consumed by its first successful
\* resolution: while key K is stored with one_time=True for (pk, ns), the
\* first instance_discovery(K) returns (pk, ns) and the next one (K not
\* having been assigned again) raises NotFoundError.
C11_OneTimeKeyConsumed ==
    \A key \in DOMAIN instance_discovery_store :
        instance_discovery_store[key][3] =>
            LET first == InstanceDiscoveryOp(instance_discovery_store, key)
                later == InstanceDiscoveryOp(first.D, key)
            IN  /\ first.raised = None
                /\ first.ret = <<instance_discovery_store[key][1],
                                 instance_discovery_store[key][2]>>
                /\ later.raised = "NotFoundException"

\* C12: a persistent discovery key resolves repeatably: while key K is
\* stored with one_time=False for (pk, ns), instance_discovery(K) succeeds,
\* returns (pk, ns) and leaves the discovery-key map unchanged, and the
\* resolution of any other key leaves K's entry as it is.
C12_PersistentKeyResolvesRepeatably ==
    \A key \in DOMAIN instance_discovery_store :
        ~instance_discovery_store[key][3] =>
            LET r == InstanceDiscoveryOp(instance_discovery_store, key)
            IN  /\ r.raised = None
                /\ r.ret = <<instance_discovery_store[key][1],
                             instance_discovery_store[key][2]>>
                /\ r.D = instance_discovery_store
                /\ \A other \in KnownFullKeys :
                      LET o == InstanceDiscoveryOp(instance_discovery_store, other)
                      IN  key \in DOMAIN o.D /\ o.D[key] = instance_discovery_store[key]

\* C12 witness: instance_discovery has just returned while a persistent key
\* and a one-time key of two different instances are both stored
C12_Witness ==
    /\ last.op = "instance_discovery" /\ last.raised = None
    /\ \E k1, k2 \in DOMAIN instance_discovery_store :
          /\ ~instance_discovery_store[k1][3]
          /\ instance_discovery_store[k2][3]
          /\ instance_discovery_store[k1][1] # instance_discovery_store[k2][1]

\* the task has returned (pk, ns) for a key it found stored as one-time
ReturnedOneTime(t, key) ==
    /\ tasks[t].pc = "done"
    /\ tasks[t].key = key
    /\ tasks[t].raised = None
    /\ tasks[t].result[1][3]

\* C13: the check-and-delete of a one-time discovery key is atomic: of two
\* instance_discovery calls on the same one-time key that run concurrently,
\* at most one returns (pk, ns).
C13_OneTimeResolvedAtMostOnce ==
    \A t1, t2 \in Tasks : \A key \in KnownFullKeys :
        t1 # t2 => ~(ReturnedOneTime(t1, key) /\ ReturnedOneTime(t2, key))

\* the live records of namespace ns with exactly this guid and label set
RecordsWith(ns, guid, labels) ==
    IF ns \in DOMAIN store
    THEN {pk \in DOMAIN store[ns] :
             store[ns][pk].guid = guid /\ store[ns][pk].labels = labels}
    ELSE {}

OthersUntouched(G, namespace) ==
    \A b \in DOMAIN store \ {GetNamespaceName(namespace)} :
        b \in DOMAIN G.store /\ Slice(G, b) = Slice(Cur, b)

\* x is what a read of the caller's namespace gives for a record stored there
ReadFrom(x, namespace) ==
    /\ x.primary_key \in DOMAIN RecordsOf(Cur, namespace)
    /\ x = SearchResult(x.primary_key, RecordsOf(Cur, namespace)[x.primary_key])

\* C15: namespaces are isolated: every put, delete, get and search scoped to
\* a namespace leaves the records, label index and guid index of every other
\* namespace unchanged, and whatever get_by_primary_key, get_by_labels and
\* search return is a record stored in the namespace they are scoped to.
C15_NamespacesIsolated ==
    \A namespace \in NamespaceNames :
        /\ \A value \in ValueDicts, guid \in TenantGuids, labels \in TenantLabelDicts :
              /\ OthersUntouched(PutByLabelsSharing(Cur, held, value, guid, labels, namespace,
                                                    NextUuid).G,
                                 namespace)
              /\ \A primary_key \in KnownKeys(UserKeys \cup {NextUuid}),
                    pass_held \in BOOLEAN, throw_on_not_found \in BOOLEAN :
                    OthersUntouched(PutByPrimaryKeySharing(Cur, held, value, guid, labels,
                                                           pass_held, primary_key, namespace,
                                                           throw_on_not_found).G,
                                    namespace)
        /\ \A primary_key \in KnownKeys(UserKeys \cup {NextUuid}) :
              /\ OthersUntouched(DeleteByPrimaryKeySharing(Cur, held, primary_key, namespace).G,
                                 namespace)
              /\ LET r == GetByPrimaryKeyOp(Cur, primary_key, namespace)
                 IN  /\ OthersUntouched(r.G, namespace)
                     /\ r.raised = None => ReadFrom(r.ret, namespace)
        /\ \A guid \in TenantGuids, labels \in TenantLabelDicts :
              LET r == GetByLabelsOp(Cur, guid, labels, namespace)
              IN  /\ OthersUntouched(r.G, namespace)
                  /\ r.raised = None => ReadFrom(r.ret, namespace)
        /\ \A guid \in TenantGuids \cup {None}, partial_labels \in TenantLabelItems :
              LET r == SearchOp(Cur, guid, partial_labels, namespace)
              IN  /\ OthersUntouched(r.G, namespace)
                  /\ r.raised = None => \A x \in r.ret : ReadFrom(x, namespace)

\* keys a caller may pick for a new record: its own, the empty string and
\* the value the next str(uuid4()) would have
FreshKeys == UserKeys \cup EmptyKeys \cup {NextUuid}

\* the result a read gives for record primary_key carries exactly what the
\* caller of put supplied
ReadsBack(r, primary_key, guid, labels) ==
    /\ r.raised = None
    /\ r.ret.primary_key = primary_key
    /\ r.ret.guid = guid
    /\ r.ret.labels = labels

\* put_by_primary_key on a key without a record: NotFound when
\* throw_on_not_found, else one record more under that key, the key returned
\* and get_by_primary_key reading it back
InsertsAbsentKey(namespace, value, guid, labels, primary_key) ==
    /\ PutByPrimaryKeyOp(Cur, value, guid, labels, primary_key, namespace, TRUE).raised
          = "NotFoundException"
    /\ LET r == PutByPrimaryKeyOp(Cur, value, guid, labels, primary_key, namespace, FALSE)
       IN  /\ r.raised = None
           /\ r.ret = primary_key
           /\ DOMAIN RecordsOf(r.G, namespace) =
                 DOMAIN RecordsOf(Cur, namespace) \cup {primary_key}
           /\ ReadsBack(GetByPrimaryKeyOp(r.G, primary_key, namespace),
                        primary_key, guid, labels)

\* C16 as stated: for a primary key that has no record in the namespace,
\* put_by_primary_key raises NotFoundError when throw_on_not_found is true,
\* and otherwise inserts exactly one new record under that key and returns
\* the key; afterwards get_by_primary_key and get_by_labels(guid, labels)
\* both return that record with the key, guid and labels supplied.
C16_PutByPrimaryKeyInsertsAbsent ==
    \A namespace \in NamespaceArgs, value \in ValueDicts, guid \in Guids, labels \in LabelDicts :
        \A primary_key \in FreshKeys \ DOMAIN RecordsOf(Cur, namespace) :
            /\ InsertsAbsentKey(namespace, value, guid, labels, primary_key)
            /\ LET r == PutByPrimaryKeyOp(Cur, value, guid, labels, primary_key, namespace, FALSE)
               IN  ReadsBack(GetByLabelsOp(r.G, guid, labels, namespace),
                             primary_key, guid, labels)

\* the live records of the namespace a caller names that, in the dicts G,
\* have the guid and every label of labels
MatchingOf(G, namespace, guid, labels) ==
    {pk \in DOMAIN RecordsOf(G, namespace) :
        /\ RecordsOf(G, namespace)[pk].guid = guid
        /\ \A k \in DOMAIN labels :
              /\ k \in DOMAIN RecordsOf(G, namespace)[pk].labels
              /\ RecordsOf(G, namespace)[pk].labels[k] = labels[k]}

\* C16 amended: as C16, with get_by_labels(guid, labels) returning the new
\* record when, after the put, it is the only live record of the namespace
\* having the guid and all the labels.
C16_PutByPrimaryKeyInsertsAbsentUnique ==
    \A namespace \in NamespaceArgs, value \in ValueDicts, guid \in Guids, labels \in LabelDicts :
        \A primary_key \in FreshKeys \ DOMAIN RecordsOf(Cur, namespace) :
            /\ InsertsAbsentKey(namespace, value, guid, labels, primary_key)
            /\ LET r == PutByPrimaryKeyOp(Cur, value, guid, labels, primary_key, namespace, FALSE)
               IN  MatchingOf(r.G, namespace, guid, labels) = {primary_key} =>
                      ReadsBack(GetByLabelsOp(r.G, guid, labels, namespace),
                                primary_key, guid, labels)

\* C16 witness: put_by_primary_key has just returned, leaving a record that
\* alone has its guid and labels beside another record of the same guid,
\* and a further key without a record can be inserted as the only match
C16_Witness ==
    /\ last.op = "put_by_primary_key" /\ last.raised = None
    /\ \E namespace \in NamespaceArgs, guid \in Guids, labels \in LabelDicts :
          /\ Cardinality(MatchingOf(Cur, namespace, guid, labels)) = 1
          /\ Cardinality(MatchingOf(Cur, namespace, guid, EmptyDict)) > 1
          /\ GetByLabelsOp(Cur, guid, labels, namespace).raised = None
    /\ \E namespace \in NamespaceArgs, value \in ValueDicts, guid \in Guids, labels \in LabelDicts :
          \E primary_key \in FreshKeys \ DOMAIN RecordsOf(Cur, namespace) :
             LET r == PutByPrimaryKeyOp(Cur, value, guid, labels, primary_key, namespace, FALSE)
             IN  /\ MatchingOf(r.G, namespace, guid, labels) = {primary_key}
                 /\ Cardinality(DOMAIN RecordsOf(r.G, namespace)) > 1

\* the keys guid_index holds for guid in the namespace a caller names
GuidBucket(G, namespace, guid) ==
    LET ns == GetNamespaceName(namespace)
    IN  IF ns \in DOMAIN G.guid_index /\ guid \in DOMAIN G.guid_index[ns]
        THEN G.guid_index[ns][guid] ELSE {}

\* the keys label_index holds for (label_key, label_value) in that namespace
LabelBucket(G, namespace, label_key, label_value) ==
    LET ns == GetNamespaceName(namespace)
    IN  IF /\ ns \in DOMAIN G.label_index
           /\ label_key \in DOMAIN G.label_index[ns]
           /\ label_value \in DOMAIN G.label_index[ns][label_key]
        THEN G.label_index[ns][label_key][label_value] ELSE {}

HashedForm(B) ==
    [k \in DOMAIN B |-> IF k = "admin" THEN [hash |-> Sha256(JsonDumps(B["admin"]))] ELSE B[k]]

\* after a put of bundle B has returned key primary_key and left the dicts
\* G, each read path that yields primary_key yields HashedForm(B) with it
ReadsReturnHashed(G, primary_key, B) ==
    /\ LET r == GetByPrimaryKeyOp(G, primary_key, None)
       IN  r.raised = None /\ r.ret.value = HashedForm(B)
    /\ \A labels \in TenantLabelDicts :
          LET r == GetByLabelsOp(G, "slack", labels, None)
          IN  (r.raised = None /\ r.ret.primary_key = primary_key) =>
                  r.ret.value = HashedForm(B)
    /\ \A partial_labels \in TenantLabelItems :
          LET r == SearchOp(G, "slack", partial_labels, None)
          IN  r.raised = None =>
                  \A x \in r.ret : x.primary_key = primary_key => x.value = HashedForm(B)

KeysOf(keys) == {keys[i] : i \in DOMAIN keys}

\* C19: key rotation: encryption always uses the first (primary) key of the
\* key list, and decryption of a ciphertext succeeds if and only if the key
\* it was encrypted under is anywhere in the current key list; so data
\* encrypted with key list [K1] decrypts with key list [K2, K1] and fails
\* with a decryption error with key list [K2].
C19_KeyRotation ==
    /\ \A value \in Bundles : Encrypt(value).key = encryptor[1]
    /\ \A encrypted_value \in tokens :
          /\ Decrypt(encrypted_value).raised = None <=> encrypted_value.key \in KeysOf(encryptor)
          /\ Decrypt(encrypted_value).raised \in {None, "InvalidToken"}
          /\ Decrypt(encrypted_value).raised = None =>
                \E value \in Bundles : Decrypt(encrypted_value).ret = HashedForm(value)
    /\ \A value \in Bundles :
          LET made == FernetEncrypt(EncryptionKeys("K1", <<>>), JsonDumps(HashedForm(value)))
          IN  /\ FernetDecrypt(EncryptionKeys("K2", <<<<"K1">>>>), made).raised = None
              /\ FernetDecrypt(EncryptionKeys("K2", <<>>), made).raised = "InvalidToken"

\* C19 witness: a decryption has just failed under a key list of two keys,
\* while a ciphertext made under the secondary key still opens and one
\* made under the present primary key exists
C19_Witness ==
    /\ last.op = "_decrypt" /\ last.raised = "InvalidToken"
    /\ Len(encryptor) = 2 /\ encryptor[1] # encryptor[2]
    /\ \E encrypted_value \in tokens :
          encrypted_value.key = encryptor[2] /\ Decrypt(encrypted_value).raised = None
    /\ \E encrypted_value \in tokens : encrypted_value.key = encryptor[1]

\* the outcomes of the six store operations for a namespace argument, over
\* every other argument
StoreOutcomes(namespace) ==
    [put_by_primary_key |->
        [a \in ValueDicts \X TenantLabelDicts \X FreshKeys \X BOOLEAN |->
            PutByPrimaryKeyOp(Cur, a[1], "slack", a[2], a[3], namespace, a[4])],
     put_by_labels |->
        [a \in ValueDicts \X TenantLabelDicts |->
            PutByLabelsOp(Cur, a[1], "slack", a[2], namespace, NextUuid)],
     get_by_primary_key |->
        [primary_key \in FreshKeys |-> GetByPrimaryKeyOp(Cur, primary_key, namespace)],
     get_by_labels |->
        [labels \in TenantLabelDicts |-> GetByLabelsOp(Cur, "slack", labels, namespace)],
     search |->
        [partial_labels \in TenantLabelItems |-> SearchOp(Cur, "slack", partial_labels, namespace)],
     delete_by_primary_key |->
        [primary_key \in FreshKeys |-> DeleteByPrimaryKeyOp(Cur, primary_key, namespace)]]

\* P holds of every outcome of every store operation for that namespace
EachOutcome(namespace, P(_)) ==
    \A op \in DOMAIN StoreOutcomes(namespace) :
        \A a \in DOMAIN StoreOutcomes(namespace)[op] : P(StoreOutcomes(namespace)[op][a])

\* an absent namespace is served by the default namespace: no other
\* namespace of the dicts changes
UsesDefaultNamespace(r) ==
    /\ \A ns \in DOMAIN Cur.store \ {default_namespace} :
          ns \in DOMAIN r.G.store /\ Slice(r.G, ns) = Slice(Cur, ns)
    /\ DOMAIN r.G.store \subseteq DOMAIN Cur.store \cup {default_namespace}

\* the call failed as an invalid argument and changed nothing
RejectedUnchanged(r) == r.raised = "ValueError" /\ r.G = Cur

C21_NamespaceExistenceErrors ==
    \A namespace \in LocalNamespaces :
        /\ LocalCheckNamespace(local_store, namespace) =>
              /\ CreateNamespaceOp(local_store, namespace).raised = "ConflictError"
              /\ CreateNamespaceOp(local_store, namespace).L = local_store
        /\ ~LocalCheckNamespace(local_store, namespace) =>
              /\ DeleteNamespaceOp(local_store, namespace).raised = "NotFoundError"
              /\ DeleteNamespaceOp(local_store, namespace).L = local_store
              /\ CreateNamespaceOp(local_store, namespace).raised = None
              /\ LocalCheckNamespace(CreateNamespaceOp(local_store, namespace).L, namespace)

\* C21 witness: create_namespace has just raised ConflictError, a namespace
\* holding an item exists and another namespace is absent
C21_Witness ==
    /\ last.op = "create_namespace" /\ last.raised = "ConflictError"
    /\ \E namespace \in LocalNamespaces, collection \in Collections :
          /\ LocalCheckCollection(local_store, collection, namespace)
          /\ local_store._data[namespace][collection] # EmptyDict
    /\ \E namespace \in LocalNamespaces : ~LocalCheckNamespace(local_store, namespace)

\* nothing of namespace ns is left in the collection store L, and creating
\* ns again gives an empty namespace
NothingLeft(L, ns) ==
    /\ ns \notin DOMAIN L._data
    /\ ns \notin DOMAIN L._searchable_fields
    /\ ns \notin DOMAIN L._data_fields
    /\ ns \notin DOMAIN L._model_classes
    /\ LET c == CreateNamespaceOp(L, ns).L
       IN  /\ c._data[ns] = EmptyDict
           /\ c._searchable_fields[ns] = EmptyDict
           /\ c._data_fields[ns] = EmptyDict
           /\ c._model_classes[ns] = EmptyDict

\* the discovery keys of D assigned to an instance of namespace ns
KeysOfNamespace(D, ns) == {key \in DOMAIN D : GetNamespaceName(D[key][2]) = ns}

\* C22: deleting a namespace cascades to everything that belongs to it:
\* after delete_namespace(ns) no record, index entry or schema metadata of
\* ns remains (a later create of ns starts empty), and no discovery key maps
\* to ns any more, so instance_discovery of every key that was assigned to
\* an instance of ns raises NotFoundError.
C22_DeleteNamespaceCascades ==
    [][(last'.op = "delete_namespace" /\ last'.raised = None) =>
          \A ns \in DOMAIN local_store._data \ DOMAIN local_store'._data :
              /\ NothingLeft(local_store', ns)
              /\ KeysOfNamespace(instance_discovery_store', ns) = {}
              /\ \A key \in KeysOfNamespace(instance_discovery_store, ns) :
                    InstanceDiscoveryOp(instance_discovery_store', key).raised
                       = "NotFoundException"]_vars

\* in the dicts G, primary_key is indexed under guid and each label of
\* labels and in no other guid or label bucket of the namespace
IndexedExactly(G, namespace, primary_key, guid, labels) ==
    /\ \A g \in Guids : primary_key \in GuidBucket(G, namespace, g) <=> g = guid
    /\ \A label_key \in LabelKeys, label_value \in LabelValues :
          primary_key \in LabelBucket(G, namespace, label_key, label_value) <=>
             (label_key \in DOMAIN labels /\ labels[label_key] = label_value)

C24_EmptyBucketsPruned ==
    \A ns \in DOMAIN store :
        /\ \A guid \in DOMAIN guid_index[ns] : guid_index[ns][guid] # {}
        /\ \A label_key \in DOMAIN label_index[ns] :
              /\ label_index[ns][label_key] # EmptyDict
              /\ \A label_value \in DOMAIN label_index[ns][label_key] :
                    label_index[ns][label_key][label_value] # {}
        /\ store[ns] = EmptyDict =>
              guid_index[ns] = EmptyDict /\ label_index[ns] = EmptyDict

\* C25: the label index stays dense per key: in every state reachable by
\* inserts, updates and deletes, for every label key present in a namespace's
\* label index every live record of that namespace is in exactly one value
\* bucket under that key, records inserted after the key was introduced
\* included.
C25_LabelIndexDense ==
    \A ns \in DOMAIN store :
        \A label_key \in DOMAIN label_index[ns] :
            \A primary_key \in DOMAIN store[ns] :
                Cardinality({label_value \in DOMAIN label_index[ns][label_key] :
                    primary_key \in label_index[ns][label_key][label_value]}) = 1

\* the namespace a collection-store call with this argument works on
NsOf(namespace) == DefaultNamespaceHelper(namespace)

\* C26: in the collection store create_item with an item whose pk is set
\* raises ConflictError only when an item with that pk already exists in the
\* collection; when the pk is not yet present the item is created under
\* exactly that pk and the pk is returned; update_item and delete_item raise
\* NotFoundError exactly when the pk is absent.
C26_ItemErrorsFollowPresence ==
    \A collection \in Collections, namespace \in {None, "acme"}, pk \in KnownKeys(UserKeys),
       now \in Times :
        \A item \in ItemsWith(pk) :
            LET present == CheckPks(local_store, collection, {pk}, NsOf(namespace))
                c == CreateItemOp(local_store, collection, item, namespace,
                                  UuidNames[next_uuid], now)
                u == UpdateItemOp(local_store, collection, item, namespace, now)
                d == DeleteItemOp(local_store, collection, pk, namespace)
            IN  /\ c.raised = "ConflictError" => present
                /\ (LocalCheckCollection(local_store, collection, NsOf(namespace)) /\ ~present) =>
                      /\ c.raised = None
                      /\ c.ret = pk
                      /\ CheckPks(c.L, collection, {pk}, NsOf(namespace))
                      /\ c.L._data[NsOf(namespace)][collection][pk] =
                            DataStructure(item, now, now)
                /\ u.raised = "NotFoundError" <=> ~present
                /\ d.raised = "NotFoundError" <=> ~present

\* what get_by_primary_key returns for p in G is what it returns now
SameRead(G, p, namespace) ==
    GetByPrimaryKeyOp(G, p, namespace).ret = GetByPrimaryKeyOp(Cur, p, namespace).ret

\* the put r returned a key, and every other record reads as before it
OthersReadTheSame(r, namespace) ==
    r.raised = None =>
        \A p \in DOMAIN RecordsOf(Cur, namespace) \ {r.ret} : SameRead(r.G, p, namespace)

\* C27: inserting or updating one record never changes what is stored for
\* another: for any two distinct primary keys p and q of a namespace, a
\* put_by_primary_key or put_by_labels that writes q leaves the labels, guid
\* and value returned by get_by_primary_key(p) unchanged.
C27_PutLeavesOtherRecords ==
    \A value \in ValueDicts, guid \in Guids, labels \in LabelDicts :
        /\ OthersReadTheSame(PutByLabelsOp(Cur, value, guid, labels, None, NextUuid), None)
        /\ \A q \in KnownKeys(UserKeys \cup {NextUuid}) :
              OthersReadTheSame(PutByPrimaryKeyOp(Cur, value, guid, labels, q, None, FALSE),
                                None)

\* the exceptions a put raises on its own account
PutErrors == {"NotFoundException", "BadDataError", "ConflictException"}

\* a put that raised left namespaces, records and indices as they are now
FailedUnchanged(r) == r.raised \in PutErrors => r.G = Cur

\* C28: a failed put changes nothing: when put_by_primary_key raises
\* NotFound (absent key with throw_on_not_found) or BadDataError, or
\* put_by_labels raises Conflict, the set of namespaces, all records and all
\* indices are exactly as before the call; a namespace that did not exist
\* before the failed call does not exist after it.
C28_FailedPutChangesNothing ==
    \A value \in ValueDicts, guid \in Guids, labels \in LabelDicts :
        /\ FailedUnchanged(PutByLabelsOp(Cur, value, guid, labels, None, NextUuid))
        /\ \A primary_key \in KnownKeys(UserKeys \cup {NextUuid}),
              throw_on_not_found \in BOOLEAN :
              FailedUnchanged(PutByPrimaryKeyOp(Cur, value, guid, labels, primary_key, None,
                                                throw_on_not_found))

\* C29: discovery keys never dangle: in every reachable state each entry of
\* the discovery-key map refers to a (primary_key, namespace) for which a
\* live record exists, so after delete_by_primary_key(pk, ns) no
\* instance_discovery call returns (pk, ns).
C29_DiscoveryKeysNeverDangle ==
    \A key \in DOMAIN instance_discovery_store :
        LET r == InstanceDiscoveryOp(instance_discovery_store, key)
        IN  r.raised = None => r.ret[1] \in DOMAIN RecordsOf(Cur, r.ret[2])

\* the key the put of task t returned has a record in the namespace it wrote
\* to, indexed under the record's guid and labels
PutIsPresent(t) ==
    LET ns == tasks[t].ns
        pk == tasks[t].ret
    IN  /\ ns \in DOMAIN store
        /\ pk \in DOMAIN store[ns]
        /\ store[ns][pk].guid \in DOMAIN guid_index[ns]
        /\ pk \in guid_index[ns][store[ns][pk].guid]
        /\ \A label_key \in DOMAIN store[ns][pk].labels :
              /\ label_key \in DOMAIN label_index[ns]
              /\ store[ns][pk].labels[label_key] \in DOMAIN label_index[ns][label_key]
              /\ pk \in label_index[ns][label_key][store[ns][pk].labels[label_key]]

====
